---- MODULE Spec2Model ----
(***************************************************************************)
(* CodeFit extension: exercise sequencer (ExerciseService), health         *)
(* tracker (HealthTracker), leveling engine (GamificationService) and      *)
(* reminder policy (HealthReminderService) over the editor's key-value     *)
(* store.  Time is counted in whole seconds since local midnight of day 0. *)
(***************************************************************************)
EXTENDS Integers, Sequences, FiniteSets, TLC

VARIABLES
  now,                    \* the clock, seconds
  \* --- the key-value store (globalState) ---
  activities,             \* 'activities': the activity log
  storedStats,            \* 'userStats': <<>> or <<UserStats>>
  storedUnlocked,         \* 'unlockedAchievements'
  storedQuest,            \* 'dailyQuest': <<>> or <<DailyQuest>>
  storedReminder,         \* 'reminderState': <<>> or <<state>>
  \* --- HealthTracker ---
  currentStats,
  nextId,                 \* stands for the unique activity identifier
  \* --- GamificationService ---
  userStats, unlockedAchievements, dailyQuest,
  \* --- ExerciseService: the pending showExercisePicker call chains ---
  flows, sessionsStarted,
  \* --- HealthReminderService ---
  paused, snoozedUntil, lastCommitTime, consecutiveWorkMinutes,
  codeInputFrequency, todayBreakCount,
  recentInputs,           \* the window of setupActivityTracking
  reminderPrompts,        \* reminder messages shown and not yet answered
  ticks,                  \* timer callbacks of the reminder service so far
  \* --- configuration (codefit.*) and the editor ---
  gamificationEnabled, frequency, dndEnabled,
  debugging,              \* vscode.debug.activeDebugSession is defined
  \* --- FirebaseService ---
  authSession,            \* authSession is not null
  firebaseToken,          \* 'firebaseToken' is in the key-value store
  \* --- GitIntegration and the repository it listens to ---
  git,
  \* --- the call in progress or last made, with what it was given and
  \*     what it left ---
  probe

(***************************************************************************)
(* Bounds of the model                                                     *)
(***************************************************************************)
\* number of executeExercise calls in one behaviour of the sequencer
MaxSessions == 2
\* number of completed exercises in one behaviour of the tracker
MaxCompletions == 4
\* number of checkAndNotify calls in one behaviour of the reminder service
MaxTicks == 2
\* length of the input window (the code keeps the last 60 change events)
InputWindow == 2
\* largest streak and longestStreak a drawn stats record carries
MaxStreak == 3
\* largest number of activities in a drawn day log
MaxSeed == 9
\* last calendar day the clock may reach
MaxDay == 3
\* stands for the 1000 of saveActivity: entries kept in the activity log
ActivityCap == 10
\* seconds that pass between two modelled firings of a step countdown
TickSeconds == 30
\* countdown firings the sequencer follows after activation
MaxCountdownTicks == 4
\* number of completed exercises in one behaviour of the leveling engine
MaxAwards == 3
\* largest XP value the level lookup is applied to
MaxXP == 25001
\* seconds the clock jumps while the editor is left alone
IdleJump == 43200
\* number of exercises a fresh user completes one after the other
MaxBreaks == 100
\* number of commits made in one behaviour of the Git integration
MaxCommits == 2
\* number of times setupListeners runs in one behaviour
MaxListeners == 2
\* number of onRepositoryStateChange calls waiting for getCommit at once
MaxPending == 3

(***************************************************************************)
(* Calendar helpers (Date, date-fns)                                       *)
(***************************************************************************)
DaySeconds == 24 * 3600

DayOf(t) == t \div DaySeconds

HourOf(t) == (t % DaySeconds) \div 3600

MinuteOfDay(t) == (t % DaySeconds) \div 60

startOfDay(t) == DayOf(t) * DaySeconds

isToday(t, nowT) == DayOf(t) = DayOf(nowT)

isYesterday(t, nowT) == DayOf(t) = DayOf(nowT) - 1

Max(a, b) == IF a >= b THEN a ELSE b

Min(a, b) == IF a <= b THEN a ELSE b

\* Math.round of (num / den) for den > 0: nearest integer, halves go up
RoundDiv(num, den) == (2 * num + den) \div (2 * den)

(***************************************************************************)
(* Exercise catalog (constants/exercises): the modelled part of EXERCISES  *)
(***************************************************************************)
ExerciseIds == {"eye_exercise", "wrist_exercise"}

EXERCISES ==
  [ eye_exercise   |-> [id |-> "eye_exercise", category |-> "1min",
                        duration |-> 60, steps |-> <<20, 20, 20>>],
    wrist_exercise |-> [id |-> "wrist_exercise", category |-> "targeted",
                        duration |-> 120, steps |-> <<30, 30, 30, 30>>],
    walking_break  |-> [id |-> "walking_break", category |-> "5min",
                        duration |-> 300, steps |-> <<10, 240, 30, 20>>],
    desk_squats    |-> [id |-> "desk_squats", category |-> "3min",
                        duration |-> 180, steps |-> <<10, 3, 2, 3, 162>>] ]

\* createExerciseQuickPickItems: the exercises offered for a suggested
\* duration in seconds (0 stands for "no suggestion")
createExerciseQuickPickItems(suggestedDuration) ==
  IF suggestedDuration = 0 THEN ExerciseIds
  ELSE LET targetCategory == IF suggestedDuration <= 60 THEN "1min"
                             ELSE IF suggestedDuration <= 180 THEN "3min"
                             ELSE "5min"
       IN {e \in ExerciseIds : EXERCISES[e].category = targetCategory}

(***************************************************************************)
(* UserStats and its two loaders                                           *)
(***************************************************************************)
DefaultStats ==
  [healthScore |-> 100, streak |-> 0, longestStreak |-> 0,
   totalExercises |-> 0, totalExerciseTime |-> 0, totalPoints |-> 0,
   availablePoints |-> 0, level |-> 1, xp |-> 0]

\* storage.get('userStats', default): the stored slot is <<>> or <<record>>
loadStats(stored) == IF stored = <<>> THEN DefaultStats ELSE stored[1]

loadUserStats(stored) == IF stored = <<>> THEN DefaultStats ELSE stored[1]

(***************************************************************************)
(* HealthTracker: points, activity log, daily metrics, health score        *)
(***************************************************************************)
calculateBasePoints(duration) ==
  IF duration <= 60 THEN 5 ELSE IF duration <= 180 THEN 15 ELSE 30

calculatePoints(duration) == calculateBasePoints(duration)

\* saveActivity trimming the log at its end instead of its head
saveActivityKeepOldest(log, activity) ==
  LET pushed == Append(log, activity)
  IN IF Len(pushed) > ActivityCap THEN SubSeq(pushed, 1, ActivityCap) ELSE pushed

\* the log after saveActivity: push, then keep the last ActivityCap entries
saveActivity(log, activity) ==
  LET pushed == Append(log, activity)
  IN IF Len(pushed) > ActivityCap
     THEN SubSeq(pushed, Len(pushed) - ActivityCap + 1, Len(pushed))
     ELSE pushed

getActivitiesForDate(log, t) == SelectSeq(log, LAMBDA a : DayOf(a.createdAt) = DayOf(t))

\* Array.prototype.sort by completedAt (stable): insertion into a sorted prefix
RECURSIVE InsertByCompleted(_, _)
InsertByCompleted(sorted, a) ==
  IF sorted = <<>> THEN <<a>>
  ELSE IF sorted[Len(sorted)].completedAt <= a.completedAt
       THEN Append(sorted, a)
       ELSE Append(InsertByCompleted(SubSeq(sorted, 1, Len(sorted) - 1), a),
                   sorted[Len(sorted)])

RECURSIVE SortByCompleted(_)
SortByCompleted(s) ==
  IF s = <<>> THEN <<>>
  ELSE InsertByCompleted(SortByCompleted(SubSeq(s, 1, Len(s) - 1)), s[Len(s)])

\* the loop of calculateLongestSittingStreak, in seconds:
\* [longest, last] after walking the sorted activities
RECURSIVE SittingWalk(_, _, _)
SittingWalk(sorted, longest, last) ==
  IF sorted = <<>> THEN [longest |-> longest, last |-> last]
  ELSE SittingWalk(Tail(sorted),
                   Max(longest, sorted[1].startedAt - last),
                   sorted[1].completedAt)

\* minutes, rounded
calculateLongestSittingStreak(today, nowT) ==
  IF Len(today) = 0 THEN 480
  ELSE LET w == SittingWalk(SortByCompleted(today), 0, startOfDay(nowT))
       IN RoundDiv(Max(w.longest, nowT - w.last), 60)

RECURSIVE SumDuration(_)
SumDuration(s) == IF s = <<>> THEN 0 ELSE s[1].duration + SumDuration(Tail(s))

calculateDailyMetrics(today, nowT) ==
  LET codingTime == 480
  IN [codingTime |-> codingTime,
      breaksTaken |-> Len(today),
      breaksRecommended |-> codingTime \div 60,
      exerciseDuration |-> SumDuration(today) \div 60,
      longestSittingStreak |-> calculateLongestSittingStreak(today, nowT)]

\* breakRatio < k/10, with breakRatio = taken / recommended (0 when none recommended)
RatioBelow(m, k) ==
  IF m.breaksRecommended > 0 THEN 10 * m.breaksTaken < k * m.breaksRecommended
  ELSE TRUE

\* a mis-clamped score: the bands of one factor add up and only the upper
\* limit is enforced
calculateHealthScoreUnclamped(log, nowT) ==
  LET today == getActivitiesForDate(log, nowT)
      m == calculateDailyMetrics(today, nowT)
      p1 == IF RatioBelow(m, 5) THEN 40 ELSE IF RatioBelow(m, 7) THEN 20
            ELSE IF RatioBelow(m, 9) THEN 10 ELSE 0
      p2 == (IF m.longestSittingStreak > 120 THEN 30 ELSE 0)
            + (IF m.longestSittingStreak > 90 THEN 20 ELSE 0)
            + (IF m.longestSittingStreak > 60 THEN 10 ELSE 0)
      p3 == IF m.exerciseDuration < 10 THEN 15
            ELSE IF m.exerciseDuration < 20 THEN 8 ELSE 0
      uniqueExercises == Cardinality({today[i].exerciseId : i \in 1..Len(today)})
      p4 == IF uniqueExercises < 2 THEN 15 ELSE IF uniqueExercises < 3 THEN 8 ELSE 0
  IN Min(100, 100 - p1 - p2 - p3 - p4)

calculateHealthScore(log, nowT) ==
  LET today == getActivitiesForDate(log, nowT)
      m == calculateDailyMetrics(today, nowT)
      p1 == IF RatioBelow(m, 5) THEN 40 ELSE IF RatioBelow(m, 7) THEN 20
            ELSE IF RatioBelow(m, 9) THEN 10 ELSE 0
      p2 == IF m.longestSittingStreak > 120 THEN 30
            ELSE IF m.longestSittingStreak > 90 THEN 20
            ELSE IF m.longestSittingStreak > 60 THEN 10 ELSE 0
      p3 == IF m.exerciseDuration < 10 THEN 15
            ELSE IF m.exerciseDuration < 20 THEN 8 ELSE 0
      uniqueExercises == Cardinality({today[i].exerciseId : i \in 1..Len(today)})
      p4 == IF uniqueExercises < 2 THEN 15 ELSE IF uniqueExercises < 3 THEN 8 ELSE 0
  IN Max(0, Min(100, 100 - p1 - p2 - p3 - p4))

\* updateStreak with the `|| streak === 0' alternative left out
updateStreakNoRestart(stats, log, nowT) ==
  LET hasActivityToday == \E i \in 1..Len(log) : isToday(log[i].createdAt, nowT)
      hasActivityYesterday == \E i \in 1..Len(log) : isYesterday(log[i].createdAt, nowT)
  IN IF hasActivityToday
     THEN LET s1 == IF hasActivityYesterday THEN stats.streak + 1 ELSE stats.streak
          IN [stats EXCEPT !.streak = s1,
                           !.longestStreak = IF s1 > @ THEN s1 ELSE @]
     ELSE IF ~hasActivityYesterday /\ stats.streak > 0
          THEN [stats EXCEPT !.streak = 0]
          ELSE stats

\* updateStreak with the reset branch resetting longestStreak too
updateStreakResetAll(stats, log, nowT) ==
  LET hasActivityToday == \E i \in 1..Len(log) : isToday(log[i].createdAt, nowT)
      hasActivityYesterday == \E i \in 1..Len(log) : isYesterday(log[i].createdAt, nowT)
  IN IF hasActivityToday
     THEN LET s1 == IF hasActivityYesterday \/ stats.streak = 0
                    THEN stats.streak + 1 ELSE stats.streak
          IN [stats EXCEPT !.streak = s1,
                           !.longestStreak = IF s1 > @ THEN s1 ELSE @]
     ELSE IF ~hasActivityYesterday /\ stats.streak > 0
          THEN [stats EXCEPT !.streak = 0, !.longestStreak = 0]
          ELSE stats

\* updateStreak without the raise of longestStreak
updateStreakLongestKept(stats, log, nowT) ==
  LET hasActivityToday == \E i \in 1..Len(log) : isToday(log[i].createdAt, nowT)
      hasActivityYesterday == \E i \in 1..Len(log) : isYesterday(log[i].createdAt, nowT)
  IN IF hasActivityToday
     THEN LET s1 == IF hasActivityYesterday \/ stats.streak = 0
                    THEN stats.streak + 1 ELSE stats.streak
          IN [stats EXCEPT !.streak = s1]
     ELSE IF ~hasActivityYesterday /\ stats.streak > 0
          THEN [stats EXCEPT !.streak = 0]
          ELSE stats

\* the stats record after updateStreak
updateStreak(stats, log, nowT) ==
  LET hasActivityToday == \E i \in 1..Len(log) : isToday(log[i].createdAt, nowT)
      hasActivityYesterday == \E i \in 1..Len(log) : isYesterday(log[i].createdAt, nowT)
  IN IF hasActivityToday
     THEN LET s1 == IF hasActivityYesterday \/ stats.streak = 0
                    THEN stats.streak + 1 ELSE stats.streak
          IN [stats EXCEPT !.streak = s1,
                           !.longestStreak = IF s1 > @ THEN s1 ELSE @]
     ELSE IF ~hasActivityYesterday /\ stats.streak > 0
          THEN [stats EXCEPT !.streak = 0]
          ELSE stats

\* the stats record after updateStats (which ends in updateStreak)
updateStats(stats, activity, log, nowT) ==
  updateStreak([stats EXCEPT !.totalExercises = @ + 1,
                             !.totalExerciseTime = @ + (activity.duration \div 60),
                             !.totalPoints = @ + activity.pointsEarned,
                             !.availablePoints = @ + activity.pointsEarned],
               log, nowT)

updateHealthScore(stats, log, nowT) ==
  [stats EXCEPT !.healthScore = calculateHealthScore(log, nowT)]

(***************************************************************************)
(* GamificationService: XP, points, levels, achievements, daily quest      *)
(***************************************************************************)
calculateExerciseXP(e) ==
  CASE EXERCISES[e].category = "1min" -> 5
    [] EXERCISES[e].category = "3min" -> 15
    [] EXERCISES[e].category = "5min" -> 30
    [] EXERCISES[e].category = "targeted" -> 20
    [] OTHER -> 10

calculateBonusXP(stats, nowT) ==
  (IF HourOf(nowT) >= 6 /\ HourOf(nowT) < 8 THEN 5 ELSE 0)
  + (IF stats.streak >= 7 THEN (stats.streak \div 7) * 2 ELSE 0)

\* Math.floor(points * 1.1) under the consistency bonus
calculateExercisePoints(e, stats, enabled) ==
  LET points == calculateExerciseXP(e)
  IN IF enabled /\ stats.streak >= 7 THEN (points * 11) \div 10 ELSE points

LEVELS ==
  << [level |-> 1, xpRequired |-> 0], [level |-> 2, xpRequired |-> 100],
     [level |-> 3, xpRequired |-> 250], [level |-> 5, xpRequired |-> 500],
     [level |-> 10, xpRequired |-> 1500], [level |-> 15, xpRequired |-> 3000],
     [level |-> 20, xpRequired |-> 5000], [level |-> 30, xpRequired |-> 10000],
     [level |-> 50, xpRequired |-> 25000] >>

\* the scan of findCurrentLevel with the threshold itself excluded
RECURSIVE LevelScanStrict(_, _)
LevelScanStrict(i, xp) ==
  IF i < 1 THEN 1
  ELSE IF xp > LEVELS[i].xpRequired THEN LEVELS[i].level
  ELSE LevelScanStrict(i - 1, xp)

\* the loop of findCurrentLevel from table entry i down
RECURSIVE LevelScan(_, _)
LevelScan(i, xp) ==
  IF i < 1 THEN 1
  ELSE IF xp >= LEVELS[i].xpRequired THEN LEVELS[i].level
  ELSE LevelScan(i - 1, xp)

findCurrentLevel(xp) == LevelScan(Len(LEVELS), xp)

checkAndHandleLevelUp(stats) ==
  LET currentLevel == findCurrentLevel(stats.xp)
  IN IF currentLevel > stats.level
     THEN [stats |-> [stats EXCEPT !.level = currentLevel], leveledUp |-> TRUE]
     ELSE [stats |-> stats, leveledUp |-> FALSE]

ACHIEVEMENTS ==
  << [id |-> "streak_7", type |-> "streak", n |-> 7, time |-> "", xp |-> 100],
     [id |-> "streak_30", type |-> "streak", n |-> 30, time |-> "", xp |-> 500],
     [id |-> "streak_100", type |-> "streak", n |-> 100, time |-> "", xp |-> 2000],
     [id |-> "breaks_100", type |-> "count", n |-> 100, time |-> "", xp |-> 150],
     [id |-> "exercises_500", type |-> "count", n |-> 500, time |-> "", xp |-> 800],
     [id |-> "morning_7", type |-> "time-based", n |-> 7, time |-> "morning", xp |-> 200],
     [id |-> "night_owl", type |-> "time-based", n |-> 10, time |-> "night", xp |-> 300] >>

checkTimeBasedAchievement(req, nowT) ==
  IF req.time = "morning" THEN HourOf(nowT) >= 6 /\ HourOf(nowT) < 10
  ELSE IF req.time = "night" THEN HourOf(nowT) >= 22 \/ HourOf(nowT) < 6
  ELSE FALSE

checkAchievementRequirement(a, stats, nowT) ==
  CASE a.type = "streak" -> stats.streak >= a.n
    [] a.type = "count" -> stats.totalExercises >= a.n
    [] a.type = "time-based" -> checkTimeBasedAchievement(a, nowT)
    [] OTHER -> FALSE

\* the loop of checkAchievements without its skip of unlocked entries
RECURSIVE AchievementScanNoSkip(_, _, _, _)
AchievementScanNoSkip(i, stats, unlocked, nowT) ==
  IF i > Len(ACHIEVEMENTS) THEN [stats |-> stats, unlocked |-> unlocked]
  ELSE LET a == ACHIEVEMENTS[i]
       IN IF checkAchievementRequirement(a, stats, nowT)
          THEN AchievementScanNoSkip(i + 1, [stats EXCEPT !.xp = @ + a.xp],
                                     unlocked \cup {a.id}, nowT)
          ELSE AchievementScanNoSkip(i + 1, stats, unlocked, nowT)

\* the loop of checkAchievements from catalog entry i on
RECURSIVE AchievementScan(_, _, _, _)
AchievementScan(i, stats, unlocked, nowT) ==
  IF i > Len(ACHIEVEMENTS) THEN [stats |-> stats, unlocked |-> unlocked]
  ELSE LET a == ACHIEVEMENTS[i]
       IN IF a.id \notin unlocked /\ checkAchievementRequirement(a, stats, nowT)
          THEN AchievementScan(i + 1, [stats EXCEPT !.xp = @ + a.xp],
                               unlocked \cup {a.id}, nowT)
          ELSE AchievementScan(i + 1, stats, unlocked, nowT)

checkAchievements(stats, unlocked, nowT) == AchievementScan(1, stats, unlocked, nowT)

generateDailyQuest(nowT) ==
  [date |-> nowT,
   tasks |-> << [id |-> "task_breaks", target |-> 8, current |-> 0, xp |-> 40, completed |-> FALSE],
                [id |-> "task_5min", target |-> 1, current |-> 0, xp |-> 30, completed |-> FALSE],
                [id |-> "task_eyes", target |-> 3, current |-> 0, xp |-> 20, completed |-> FALSE],
                [id |-> "task_variety", target |-> 3, current |-> 0, xp |-> 50, completed |-> FALSE] >>,
   totalXP |-> 140,
   completed |-> FALSE]

\* one task after one pass of the loop body of updateDailyQuestProgress
QuestTaskStep(task, e) ==
  IF task.completed THEN task
  ELSE LET counted == \/ task.id = "task_breaks"
                      \/ task.id = "task_5min" /\ EXERCISES[e].category = "5min"
                      \/ task.id = "task_eyes" /\ EXERCISES[e].id = "eye_exercise"
                      \/ task.id = "task_variety"
           cur == IF counted THEN task.current + 1 ELSE task.current
       IN [task EXCEPT !.current = cur, !.completed = (cur >= task.target)]

RECURSIVE QuestXP(_, _, _)
QuestXP(before, after, i) ==
  IF i > Len(before) THEN 0
  ELSE (IF ~before[i].completed /\ after[i].completed THEN after[i].xp ELSE 0)
       + QuestXP(before, after, i + 1)

\* updateDailyQuestProgress without the test of dailyQuest.completed
updateDailyQuestProgressBonusAgain(stats, quest, e) ==
  LET tasks == [i \in 1..Len(quest.tasks) |-> QuestTaskStep(quest.tasks[i], e)]
      allCompleted == \A i \in 1..Len(tasks) : tasks[i].completed
      bonus == IF allCompleted THEN 50 ELSE 0
  IN [stats |-> [stats EXCEPT !.xp = @ + QuestXP(quest.tasks, tasks, 1) + bonus],
      quest |-> [quest EXCEPT !.tasks = tasks,
                              !.completed = (@ \/ allCompleted)]]

updateDailyQuestProgress(stats, quest, e) ==
  LET tasks == [i \in 1..Len(quest.tasks) |-> QuestTaskStep(quest.tasks[i], e)]
      allCompleted == \A i \in 1..Len(tasks) : tasks[i].completed
      bonus == IF allCompleted /\ ~quest.completed THEN 50 ELSE 0
  IN [stats |-> [stats EXCEPT !.xp = @ + QuestXP(quest.tasks, tasks, 1) + bonus],
      quest |-> [quest EXCEPT !.tasks = tasks,
                              !.completed = (@ \/ allCompleted)]]

\* awardExerciseCompletion with the level-up check moved behind the
\* achievement check
awardExerciseCompletionLevelLast(stats, unlocked, quest, e, nowT, enabled) ==
  LET totalXP == calculateExerciseXP(e) + calculateBonusXP(stats, nowT)
      points == calculateExercisePoints(e, stats, enabled)
      s1 == [stats EXCEPT !.xp = @ + totalXP, !.totalPoints = @ + points,
                          !.availablePoints = @ + points]
      ach == checkAchievements(s1, unlocked, nowT)
      lv == checkAndHandleLevelUp(ach.stats)
      q == updateDailyQuestProgress(lv.stats, quest, e)
  IN [stats |-> q.stats, unlocked |-> ach.unlocked, quest |-> q.quest,
      xpEarned |-> totalXP, pointsEarned |-> points, leveledUp |-> lv.leveledUp,
      newLevel |-> IF lv.leveledUp THEN lv.stats.level ELSE 0]

\* the engine's state after awardExerciseCompletion, and what it returns
\* (newLevel 0 stands for undefined)
awardExerciseCompletion(stats, unlocked, quest, e, nowT, enabled) ==
  LET totalXP == calculateExerciseXP(e) + calculateBonusXP(stats, nowT)
      points == calculateExercisePoints(e, stats, enabled)
      s1 == [stats EXCEPT !.xp = @ + totalXP, !.totalPoints = @ + points,
                          !.availablePoints = @ + points]
      lv == checkAndHandleLevelUp(s1)
      ach == checkAchievements(lv.stats, unlocked, nowT)
      q == updateDailyQuestProgress(ach.stats, quest, e)
  IN [stats |-> q.stats, unlocked |-> ach.unlocked, quest |-> q.quest,
      xpEarned |-> totalXP, pointsEarned |-> points, leveledUp |-> lv.leveledUp,
      newLevel |-> IF lv.leveledUp THEN lv.stats.level ELSE 0]

(***************************************************************************)
(* ExerciseService: one record per pending showExercisePicker call chain   *)
(***************************************************************************)
FlowIds == {1, 2}

NoTime == 0 - 1

IdleFlow ==
  [phase |-> "idle", origin |-> "none", suggested |-> 0, picked |-> FALSE,
   exercise |-> "none", step |-> 0, countdown |-> 0, startTime |-> 0,
   before |-> <<>>]

SessionPhases == {"startPrompt", "running"}

FreeSlot == CHOOSE f \in FlowIds :
              /\ flows[f].phase = "idle"
              /\ \A g \in FlowIds : flows[g].phase = "idle" => f <= g

\* the activity handed to the tracker by handleExerciseCompletion, with the
\* duration measured instead of declared
completionActivityMeasured(e, startTime, endTime) ==
  [exerciseId |-> EXERCISES[e].id, duration |-> endTime - startTime,
   startedAt |-> startTime, completedAt |-> endTime]

\* the activity handed to the tracker by handleExerciseCompletion
completionActivity(e, startTime, endTime) ==
  [exerciseId |-> EXERCISES[e].id, duration |-> EXERCISES[e].duration,
   startedAt |-> startTime, completedAt |-> endTime]

\* fullActivity of recordActivity
fullActivity(activity, id, nowT) ==
  [id |-> id, exerciseId |-> activity.exerciseId, duration |-> activity.duration,
   pointsEarned |-> calculatePoints(activity.duration),
   startedAt |-> activity.startedAt, completedAt |-> activity.completedAt,
   createdAt |-> nowT]

\* what a step's promise resolves to for a notification response
stepResult(response) == response # "Stop Exercise"

StepResponses == {"Skip", "Stop Exercise", "dismissed"}

\* everything an exercise can record, as a session finds it when it starts
Records == <<activities, currentStats, userStats, unlockedAchievements, dailyQuest>>

\* the fields of the reminder service after loadState
loadState(stored) ==
  IF stored = <<>>
  THEN [paused |-> FALSE, snoozedUntil |-> NoTime, lastCommitTime |-> NoTime,
        consecutiveWorkMinutes |-> 0, todayBreakCount |-> 0]
  ELSE stored[1]

\* what saveState writes
reminderState ==
  [paused |-> paused, snoozedUntil |-> snoozedUntil,
   lastCommitTime |-> lastCommitTime,
   consecutiveWorkMinutes |-> consecutiveWorkMinutes,
   todayBreakCount |-> todayBreakCount]

storeVars == <<activities, storedStats, storedUnlocked, storedQuest>>
trackerVars == <<currentStats, nextId>>
gameVars == <<userStats, unlockedAchievements, dailyQuest>>
reminderVars == <<paused, snoozedUntil, lastCommitTime, consecutiveWorkMinutes,
                  codeInputFrequency, todayBreakCount, storedReminder,
                  recentInputs, reminderPrompts, ticks>>
configVars == <<gamificationEnabled, frequency, dndEnabled, debugging,
                authSession, firebaseToken, git>>
flowVars == <<flows, sessionsStarted>>

vars == <<now, activities, storedStats, storedUnlocked, storedQuest, storedReminder,
          currentStats, nextId, userStats, unlockedAchievements, dailyQuest,
          flows, sessionsStarted, paused, snoozedUntil, lastCommitTime,
          consecutiveWorkMinutes, codeInputFrequency, todayBreakCount,
          recentInputs, reminderPrompts, ticks,
          gamificationEnabled, frequency, dndEnabled, debugging,
          authSession, firebaseToken, git, probe>>

NoProbe == [fn |-> "none"]

(***************************************************************************)
(* Activation                                                              *)
(***************************************************************************)
\* the records of a fresh installation activated at time t
FreshRecords(t) ==
  [activities |-> <<>>, nextId |-> 1, currentStats |-> loadStats(<<>>),
   userStats |-> loadUserStats(<<>>), unlockedAchievements |-> {},
   dailyQuest |-> generateDailyQuest(t), storedStats |-> <<>>,
   storedUnlocked |-> {}, storedQuest |-> <<generateDailyQuest(t)>>]

\* the settings as installed
DefaultConfig == [frequency |-> "smart", dndEnabled |-> TRUE]

\* GitIntegration as activate leaves it ('codefit.git.integration' set, one
\* repository open at commit head): enabled, one listener registered, no
\* HEAD seen yet.  pending holds the onRepositoryStateChange calls waiting
\* for getCommit, forwarded the HEAD of every notifyCommit call made, due
\* the commits HEAD moved to while enabled after a first HEAD was seen
GitActivated(head) ==
  [enabled |-> TRUE, listeners |-> 1, lastCommitHash |-> 0, head |-> head,
   pending |-> <<>>, forwarded |-> <<>>, due |-> {}]

\* the extension at time t, holding the records st and the settings cfg,
\* its reminder service constructed on the stored reminder state rs
\* (<<>> or <<state>>), with no picker, session or prompt open
LoadedWith(t, st, rs, cfg) ==
  /\ now = t
  /\ activities = st.activities
  /\ storedStats = st.storedStats
  /\ storedUnlocked = st.storedUnlocked
  /\ storedQuest = st.storedQuest
  /\ storedReminder = rs
  /\ currentStats = st.currentStats
  /\ nextId = st.nextId
  /\ userStats = st.userStats
  /\ unlockedAchievements = st.unlockedAchievements
  /\ dailyQuest = st.dailyQuest
  /\ flows = [f \in FlowIds |-> IdleFlow]
  /\ sessionsStarted = 0
  /\ paused = loadState(rs).paused
  /\ snoozedUntil = loadState(rs).snoozedUntil
  /\ lastCommitTime = loadState(rs).lastCommitTime
  /\ consecutiveWorkMinutes = loadState(rs).consecutiveWorkMinutes
  /\ todayBreakCount = loadState(rs).todayBreakCount
  /\ codeInputFrequency = 0
  /\ recentInputs = <<>>
  /\ reminderPrompts = <<>>
  /\ ticks = 0
  /\ gamificationEnabled = TRUE
  /\ frequency = cfg.frequency
  /\ dndEnabled = cfg.dndEnabled
  /\ debugging = FALSE
  /\ authSession = FALSE
  /\ firebaseToken = FALSE
  /\ git = GitActivated(1)
  /\ probe = NoProbe

Loaded(t, st) == LoadedWith(t, st, <<>>, DefaultConfig)

\* activation on an empty store at 06:00 of day 0
Init == Loaded(6 * 3600, FreshRecords(6 * 3600))

(***************************************************************************)
(* showExercisePicker and its callers                                      *)
(***************************************************************************)
OpenPicker(origin, suggested) ==
  /\ \E f \in FlowIds : flows[f].phase = "idle"
  /\ flows' = [flows EXCEPT ![FreeSlot] =
                 [IdleFlow EXCEPT !.phase = "picker", !.origin = origin,
                                  !.suggested = suggested]]

\* the interval callback of a step decrements the countdown and resolves the
\* promise in one turn of the event loop: no other handler runs while a
\* countdown that has reached zero is still unresolved
NoExpiryPending ==
  \A f \in FlowIds : flows[f].phase = "running" => flows[f].countdown > 0

\* codefit.startExercise
StartExerciseCommand ==
  /\ NoExpiryPending
  /\ OpenPicker("command", 0)
  /\ UNCHANGED <<now, storeVars, trackerVars, gameVars, reminderVars, configVars,
                 sessionsStarted, probe>>

\* every caller counting a break only when an exercise was picked, as
\* triggerBreakNow does
FlowReturnsIfPicked(f) ==
  LET o == flows[f].origin
      counts == o \in {"takeBreak", "reminder", "postCommit"} /\ flows[f].picked
      saves == o \in {"takeBreak", "reminder"} /\ counts
  IN /\ flows' = [flows EXCEPT ![f] = IdleFlow]
     /\ todayBreakCount' = IF counts THEN todayBreakCount + 1 ELSE todayBreakCount
     /\ consecutiveWorkMinutes' = IF counts THEN 0 ELSE consecutiveWorkMinutes
     /\ storedReminder' =
          IF saves
          THEN << [reminderState EXCEPT !.consecutiveWorkMinutes = 0,
                                        !.todayBreakCount = todayBreakCount + 1] >>
          ELSE storedReminder
     /\ UNCHANGED <<paused, snoozedUntil, lastCommitTime, codeInputFrequency,
                    recentInputs, reminderPrompts, ticks>>

\* every caller counting a break only when an exercise was recorded since
\* the picker opened
FlowReturnsIfRecorded(f) ==
  LET o == flows[f].origin
      counts == /\ o \in {"takeBreak", "reminder", "postCommit"}
                /\ flows[f].phase = "celebration"
      saves == o \in {"takeBreak", "reminder"} /\ counts
  IN /\ flows' = [flows EXCEPT ![f] = IdleFlow]
     /\ todayBreakCount' = IF counts THEN todayBreakCount + 1 ELSE todayBreakCount
     /\ consecutiveWorkMinutes' = IF counts THEN 0 ELSE consecutiveWorkMinutes
     /\ storedReminder' =
          IF saves
          THEN << [reminderState EXCEPT !.consecutiveWorkMinutes = 0,
                                        !.todayBreakCount = todayBreakCount + 1] >>
          ELSE storedReminder
     /\ UNCHANGED <<paused, snoozedUntil, lastCommitTime, codeInputFrequency,
                    recentInputs, reminderPrompts, ticks>>

\* what the caller of showExercisePicker does once the call chain of flow f
\* has returned
FlowReturns(f) ==
  LET o == flows[f].origin
      counts == \/ o = "takeBreak" /\ flows[f].picked
                \/ o \in {"reminder", "postCommit"}
      saves == o \in {"takeBreak", "reminder"} /\ counts
  IN /\ flows' = [flows EXCEPT ![f] = IdleFlow]
     /\ todayBreakCount' = IF counts THEN todayBreakCount + 1 ELSE todayBreakCount
     /\ consecutiveWorkMinutes' = IF counts THEN 0 ELSE consecutiveWorkMinutes
     /\ storedReminder' =
          IF saves
          THEN << [reminderState EXCEPT !.consecutiveWorkMinutes = 0,
                                        !.todayBreakCount = todayBreakCount + 1] >>
          ELSE storedReminder
     /\ UNCHANGED <<paused, snoozedUntil, lastCommitTime, codeInputFrequency,
                    recentInputs, reminderPrompts, ticks>>

\* the quick pick resolves with an exercise: executeExercise up to its prompt
PickExercise(f, e) ==
  /\ NoExpiryPending
  /\ flows[f].phase = "picker"
  /\ e \in createExerciseQuickPickItems(flows[f].suggested)
  /\ sessionsStarted < MaxSessions
  /\ flows' = [flows EXCEPT ![f].phase = "startPrompt", ![f].exercise = e,
                            ![f].picked = TRUE, ![f].startTime = now,
                            ![f].before = Records]
  /\ sessionsStarted' = sessionsStarted + 1
  /\ UNCHANGED <<now, storeVars, trackerVars, gameVars, reminderVars, configVars, probe>>

\* the quick pick is dismissed
DismissPicker(f) ==
  /\ NoExpiryPending
  /\ flows[f].phase = "picker"
  /\ FlowReturns(f)
  /\ UNCHANGED <<now, storeVars, trackerVars, gameVars, configVars, sessionsStarted, probe>>

\* 'Begin' at the start prompt
BeginExercise(f) ==
  /\ NoExpiryPending
  /\ flows[f].phase = "startPrompt"
  /\ flows' = [flows EXCEPT ![f].phase = "running", ![f].step = 1,
                 ![f].countdown = EXERCISES[flows[f].exercise].steps[1]]
  /\ UNCHANGED <<now, storeVars, trackerVars, gameVars, reminderVars, configVars,
                 sessionsStarted, probe>>

\* 'Cancel' at the start prompt, or the prompt dismissed
DeclineStart(f) ==
  /\ NoExpiryPending
  /\ flows[f].phase = "startPrompt"
  /\ FlowReturns(f)
  /\ UNCHANGED <<now, storeVars, trackerVars, gameVars, configVars, sessionsStarted, probe>>

\* everything handleExerciseCompletion reads and writes
recordsNow ==
  [activities |-> activities, nextId |-> nextId, currentStats |-> currentStats,
   userStats |-> userStats, unlockedAchievements |-> unlockedAchievements,
   dailyQuest |-> dailyQuest, storedStats |-> storedStats,
   storedUnlocked |-> storedUnlocked, storedQuest |-> storedQuest]

\* handleExerciseCompletion for exercise e started at startTime and ended at
\* endTime: recordActivity, then awardExerciseCompletion
handleExerciseCompletion(st, e, startTime, endTime, enabled) ==
  LET full == fullActivity(completionActivity(e, startTime, endTime), st.nextId, endTime)
      log == saveActivity(st.activities, full)
      tracked == updateHealthScore(updateStats(st.currentStats, full, log, endTime),
                                   log, endTime)
      award == awardExerciseCompletion(st.userStats, st.unlockedAchievements,
                                       st.dailyQuest, e, endTime, enabled)
  IN [activities |-> log, nextId |-> st.nextId + 1, currentStats |-> tracked,
      userStats |-> award.stats, unlockedAchievements |-> award.unlocked,
      dailyQuest |-> award.quest, storedStats |-> <<award.stats>>,
      storedUnlocked |-> award.unlocked, storedQuest |-> <<award.quest>>]

\* the assignments of handleExerciseCompletion
Completes(e, startTime, endTime) ==
  \E st \in {handleExerciseCompletion(recordsNow, e, startTime, endTime,
                                      gamificationEnabled)} :
     /\ activities' = st.activities
     /\ nextId' = st.nextId
     /\ currentStats' = st.currentStats
     /\ userStats' = st.userStats
     /\ unlockedAchievements' = st.unlockedAchievements
     /\ dailyQuest' = st.dailyQuest
     /\ storedStats' = st.storedStats
     /\ storedUnlocked' = st.storedUnlocked
     /\ storedQuest' = st.storedQuest

\* the loop of executeExercise without its break: a stopped step is
\* followed by the next one
StepResolvesWithoutBreak(f, result) ==
  LET steps == EXERCISES[flows[f].exercise].steps
  IN IF flows[f].step < Len(steps)
     THEN /\ flows' = [flows EXCEPT ![f].step = @ + 1,
                                    ![f].countdown = steps[flows[f].step + 1]]
          /\ UNCHANGED <<storeVars, trackerVars, gameVars, reminderVars>>
     ELSE IF ~result
     THEN /\ FlowReturns(f)
          /\ UNCHANGED <<storeVars, trackerVars, gameVars>>
     ELSE /\ Completes(flows[f].exercise, flows[f].startTime, now)
          /\ flows' = [flows EXCEPT ![f].phase = "celebration", ![f].step = 0,
                                    ![f].countdown = 0, ![f].before = <<>>]
          /\ UNCHANGED reminderVars

\* the promise of the current step resolves: the loop of executeExercise
\* goes on, ends in completion, or breaks
StepResolves(f, result) ==
  LET steps == EXERCISES[flows[f].exercise].steps
  IN IF ~result
     THEN /\ FlowReturns(f)
          /\ UNCHANGED <<storeVars, trackerVars, gameVars>>
     ELSE IF flows[f].step < Len(steps)
     THEN /\ flows' = [flows EXCEPT ![f].step = @ + 1,
                                    ![f].countdown = steps[flows[f].step + 1]]
          /\ UNCHANGED <<storeVars, trackerVars, gameVars, reminderVars>>
     ELSE /\ Completes(flows[f].exercise, flows[f].startTime, now)
          /\ flows' = [flows EXCEPT ![f].phase = "celebration", ![f].step = 0,
                                    ![f].countdown = 0, ![f].before = <<>>]
          /\ UNCHANGED reminderVars

\* the user answers the notification of the running step before its
\* countdown has resolved the promise
RespondStep(f, response) ==
  /\ NoExpiryPending
  /\ flows[f].phase = "running"
  /\ response \in StepResponses
  /\ StepResolves(f, stepResult(response))
  /\ UNCHANGED <<now, configVars, sessionsStarted, probe>>

\* the countdown intervals of the running steps fire
TimePasses ==
  /\ \E f \in FlowIds : flows[f].phase = "running"
  /\ NoExpiryPending
  /\ now + TickSeconds <= 6 * 3600 + MaxCountdownTicks * TickSeconds
  /\ now' = now + TickSeconds
  /\ flows' = [f \in FlowIds |->
                 IF flows[f].phase = "running"
                 THEN [flows[f] EXCEPT !.countdown = @ - TickSeconds]
                 ELSE flows[f]]
  /\ UNCHANGED <<storeVars, trackerVars, gameVars, reminderVars, configVars,
                 sessionsStarted, probe>>

\* an interval callback that resolves the promise only below zero
CountdownExpiresBelowZero(f) ==
  /\ flows[f].phase = "running"
  /\ flows[f].countdown < 0
  /\ StepResolves(f, TRUE)
  /\ UNCHANGED <<now, configVars, sessionsStarted, probe>>

\* the interval callback that finds the countdown at zero: resolve(true)
ExpiryResolves(f) ==
  /\ flows[f].phase = "running"
  /\ flows[f].countdown <= 0
  /\ StepResolves(f, TRUE)
  /\ UNCHANGED <<now, configVars, sessionsStarted>>

\* a countdown that has reached zero resolves the promise of its step
CountdownExpires(f) ==
  /\ ExpiryResolves(f)
  /\ UNCHANGED probe

CelebrationResponses == {"View Stats", "Another Exercise", "Back to Code"}

\* the user answers the completion message
RespondCelebration(f, response) ==
  /\ NoExpiryPending
  /\ flows[f].phase = "celebration"
  /\ response \in CelebrationResponses
  /\ IF response = "Another Exercise"
     THEN /\ flows' = [flows EXCEPT ![f].phase = "picker", ![f].suggested = 0,
                                    ![f].exercise = "none", ![f].startTime = 0]
          /\ UNCHANGED reminderVars
     ELSE FlowReturns(f)
  /\ UNCHANGED <<now, storeVars, trackerVars, gameVars, configVars, sessionsStarted, probe>>

(***************************************************************************)
(* The environment: time passing while nothing is open                     *)
(***************************************************************************)
IdlePass ==
  /\ \A f \in FlowIds : flows[f].phase \notin SessionPhases
  /\ DayOf(now + IdleJump) <= MaxDay
  /\ now' = now + IdleJump
  /\ UNCHANGED <<storeVars, trackerVars, gameVars, reminderVars, configVars,
                 flowVars, probe>>

(***************************************************************************)
(* The sequencer with its commands                                         *)
(***************************************************************************)
Next ==
  \/ StartExerciseCommand
  \/ \E f \in FlowIds, e \in ExerciseIds : PickExercise(f, e)
  \/ \E f \in FlowIds : DismissPicker(f)
  \/ \E f \in FlowIds : BeginExercise(f)
  \/ \E f \in FlowIds : DeclineStart(f)
  \/ \E f \in FlowIds, r \in StepResponses : RespondStep(f, r)
  \/ TimePasses
  \/ \E f \in FlowIds : CountdownExpires(f)
  \/ \E f \in FlowIds, r \in CelebrationResponses : RespondCelebration(f, r)
Spec == Init /\ [][Next]_vars

(***************************************************************************)
(* Properties of the sequencer                                             *)
(***************************************************************************)
\* the session of flow f ends in this step without having completed
SessionAborts(f) ==
  /\ flows[f].phase \in SessionPhases
  /\ flows'[f].phase = "idle"

\* the session of flow f completes in this step
SessionCompletes(f) ==
  /\ flows[f].phase = "running"
  /\ flows'[f].phase = "celebration"

\* C2: when a session ends by Stop Exercise, or by anything but Begin at the
\* start prompt, the activity log, both stats records, the unlocked
\* achievements and the daily quest are exactly what they were when that
\* session started.
C2_AbortLeavesRecordsAsAtStart ==
  [][\A f \in FlowIds :
       SessionAborts(f) =>
         <<activities', currentStats', userStats', unlockedAchievements',
           dailyQuest'>> = flows[f].before]_vars

\* C3: the step in which the last step of a session resolves without Stop
\* appends exactly one activity, whose duration is the declared duration of
\* the exercise; no other step of the sequencer touches the log.
C3_CompletionAppendsOneDeclared ==
  [][IF \E f \in FlowIds : SessionCompletes(f)
     THEN \A f \in FlowIds :
            SessionCompletes(f) =>
              /\ Len(activities') = Len(activities) + 1
              /\ SubSeq(activities', 1, Len(activities)) = activities
              /\ activities'[Len(activities')].exerciseId = flows[f].exercise
              /\ activities'[Len(activities')].duration
                   = EXERCISES[flows[f].exercise].duration
     ELSE activities' = activities]_vars

\* a session has completed, and its activity took less wall-clock time
\* than the exercise declares
C3_SkippedSessionRecorded ==
  /\ activities # <<>>
  /\ LET a == activities[Len(activities)]
     IN a.completedAt - a.startedAt < a.duration

\* C4: at most one session is running steps at any time.
C4_AtMostOneSessionActive ==
  Cardinality({f \in FlowIds : flows[f].phase = "running"}) <= 1

\* C30: a session starts at step 1 of its exercise and moves only from a
\* step to the next one of the catalog; Skip and the end of the countdown
\* both lead to the next step, or to completion from the last step, and
\* nothing else leads to completion; Stop Exercise ends the session, which
\* starts no further step.
C30_StepsInCatalogOrder ==
  /\ [](\A f \in FlowIds :
          flows[f].phase = "running"
            => flows[f].step \in 1..Len(EXERCISES[flows[f].exercise].steps))
  /\ [][\A f \in FlowIds :
          LET steps == EXERCISES[flows[f].exercise].steps
              next == /\ flows'[f].phase = "running"
                      /\ flows'[f].exercise = flows[f].exercise
                      /\ flows'[f].step = flows[f].step + 1
                      /\ flows'[f].countdown = steps[flows[f].step + 1]
              completion == /\ flows[f].step = Len(steps)
                            /\ flows'[f].phase = "celebration"
          IN /\ (flows[f].phase # "running" /\ flows'[f].phase = "running")
                  => /\ flows[f].phase = "startPrompt"
                     /\ flows'[f].step = 1
                     /\ flows'[f].countdown = EXERCISES[flows'[f].exercise].steps[1]
             /\ (flows[f].phase = "running" /\ flows'[f].phase = "running")
                  => \/ next
                     \/ /\ flows'[f].step = flows[f].step
                        /\ flows'[f].exercise = flows[f].exercise
             /\ (flows[f].phase = "running" /\ flows'[f].phase \notin {"running", "idle"})
                  => completion
             /\ (RespondStep(f, "Skip") \/ CountdownExpires(f))
                  => IF flows[f].step < Len(steps) THEN next ELSE completion
             /\ RespondStep(f, "Stop Exercise") => flows'[f] = IdleFlow]_vars

\* a session is at its third step after the countdowns of the first two
\* have run out
C30_AdvancedByExpiry ==
  \E f \in FlowIds :
    /\ flows[f].phase = "running"
    /\ flows[f].exercise = "wrist_exercise"
    /\ flows[f].step = 3
    /\ flows[f].countdown = 30
    /\ now = flows[f].startTime + 60

(***************************************************************************)
(* Step notifications left on screen by an expired countdown               *)
(***************************************************************************)
\* the notifications still on screen whose step the countdown resolved, as
\* pairs of flow and step number, and the last answer given on one of them
NoLateAnswer == [step |-> 0, response |-> "none"]

openNotifications == IF probe.fn = "executeStep" THEN probe.open ELSE {}

\* the promise of step n of the session of flow f has not been resolved:
\* each executeStep call creates its own promise, resolved by the first
\* resolve call made on it
stepPending(f, n) == flows[f].phase = "running" /\ flows[f].step = n

\* the countdown of the running step resolves its promise; the step's
\* notification stays on screen
CountdownExpiresOnScreen(f) ==
  /\ ExpiryResolves(f)
  /\ probe' = [fn |-> "executeStep",
               open |-> openNotifications \cup {<<f, flows[f].step>>},
               late |-> IF probe.fn = "executeStep" THEN probe.late
                        ELSE NoLateAnswer]

\* an answer on a notification left on screen that reaches the step the
\* session is running, as if the steps shared one promise
RespondLateOnRunningStep(f, n, response) ==
  /\ NoExpiryPending
  /\ <<f, n>> \in openNotifications
  /\ response \in StepResponses
  /\ flows[f].phase = "running"
  /\ StepResolves(f, stepResult(response))
  /\ probe' = [probe EXCEPT !.open = @ \ {<<f, n>>},
                            !.late = [step |-> n, response |-> response]]
  /\ UNCHANGED <<now, configVars, sessionsStarted>>

\* the notification of step n, left on screen after the countdown resolved
\* the step, is answered: its callback clears the interval of that step,
\* disposes that step's status bar item and calls resolve on that step's
\* promise, which is resolved already
RespondLate(f, n, response) ==
  /\ NoExpiryPending
  /\ <<f, n>> \in openNotifications
  /\ response \in StepResponses
  /\ ~stepPending(f, n)
  /\ probe' = [probe EXCEPT !.open = @ \ {<<f, n>>},
                            !.late = [step |-> n, response |-> response]]
  /\ UNCHANGED <<now, flows, storeVars, trackerVars, gameVars, reminderVars,
                 configVars, sessionsStarted>>

\* codefit.startExercise given while nothing is open and no session has run
FirstStartExerciseCommand ==
  /\ sessionsStarted = 0
  /\ \A f \in FlowIds : flows[f].phase = "idle"
  /\ StartExerciseCommand

\* one session with its notifications
NextLate ==
  \/ FirstStartExerciseCommand
  \/ \E f \in FlowIds, e \in ExerciseIds : PickExercise(f, e)
  \/ \E f \in FlowIds : BeginExercise(f)
  \/ \E f \in FlowIds, r \in StepResponses : RespondStep(f, r)
  \/ TimePasses
  \/ \E f \in FlowIds : CountdownExpiresOnScreen(f)
  \/ \E f \in FlowIds, n \in 1..4, r \in StepResponses : RespondLate(f, n, r)

SpecLate == Init /\ [][NextLate]_vars

\* C36: a step is resolved by whichever comes first, the end of its
\* countdown or the answer to its notification, and moves the session on by
\* one step at most; an answer given on the notification of a step that its
\* countdown has resolved already changes nothing of the session, of the
\* records or of the reminder state.
C36_LateAnswerHasNoEffect ==
  [][/\ openNotifications' \subseteq openNotifications /\ openNotifications' # openNotifications
        => UNCHANGED <<flows, now, storeVars, trackerVars, gameVars, reminderVars>>
     /\ \A f \in FlowIds :
          (flows[f].phase = "running" /\ flows'[f].phase = "running")
            => flows'[f].step \in {flows[f].step, flows[f].step + 1}]_vars

\* Stop Exercise has been answered on the notification of a step that had
\* run out, and the session is running a later step
C36_StoppedTooLate ==
  /\ probe.fn = "executeStep"
  /\ probe.late.response = "Stop Exercise"
  /\ \E f \in FlowIds :
       /\ flows[f].phase = "running"
       /\ flows[f].step > probe.late.step
       /\ <<f, probe.late.step>> \notin probe.open

(***************************************************************************)
(* The sequencer followed second by second                                 *)
(***************************************************************************)
\* one second passes: the interval callback of every running step fires once
SecondPasses ==
  /\ \E f \in FlowIds : flows[f].phase = "running"
  /\ NoExpiryPending
  /\ now' = now + 1
  /\ flows' = [f \in FlowIds |->
                 IF flows[f].phase = "running"
                 THEN [flows[f] EXCEPT !.countdown = @ - 1]
                 ELSE flows[f]]
  /\ UNCHANGED <<storeVars, trackerVars, gameVars, reminderVars, configVars,
                 sessionsStarted, probe>>

\* one session from the command to its completion message or its abort
NextSeconds ==
  \/ FirstStartExerciseCommand
  \/ \E f \in FlowIds, e \in ExerciseIds : PickExercise(f, e)
  \/ \E f \in FlowIds : DismissPicker(f)
  \/ \E f \in FlowIds : BeginExercise(f)
  \/ \E f \in FlowIds : DeclineStart(f)
  \/ \E f \in FlowIds, r \in StepResponses : RespondStep(f, r)
  \/ SecondPasses
  \/ \E f \in FlowIds : CountdownExpires(f)

\* setInterval keeps calling back every second while a step runs, and a
\* countdown that has reached zero resolves its step
TimerKeepsFiring ==
  /\ WF_vars(SecondPasses)
  /\ \A f \in FlowIds : WF_vars(CountdownExpires(f))

SpecSeconds == Init /\ [][NextSeconds]_vars /\ TimerKeepsFiring

\* C31: a session whose steps are running always comes to completion or is
\* aborted; while a step runs its countdown loses one per second from the
\* step's declared duration, and the step resolves when it reaches zero.
C31_SessionTerminates ==
  /\ \A f \in FlowIds :
       (flows[f].phase = "running") ~> (flows[f].phase \in {"celebration", "idle"})
  /\ [](\A f \in FlowIds :
          flows[f].phase = "running"
            => flows[f].countdown
                 \in 0..EXERCISES[flows[f].exercise].steps[flows[f].step])
  /\ [][\A f \in FlowIds :
          /\ (flows[f].phase = "running" /\ flows'[f].phase = "running"
                /\ flows'[f].step = flows[f].step)
               => flows[f].countdown - flows'[f].countdown = now' - now
          /\ (flows[f].phase = "running" /\ flows[f].countdown = 0)
               => now' = now]_vars

\* a session left alone has completed exactly when its declared seconds
\* had passed
C31_CompletedByTimerAlone ==
  \E f \in FlowIds :
    /\ flows[f].phase = "celebration"
    /\ flows[f].exercise = "wrist_exercise"
    /\ activities # <<>>
    /\ LET a == activities[Len(activities)]
       IN /\ a.exerciseId = "wrist_exercise"
          /\ a.startedAt = flows[f].startTime
          /\ a.completedAt = a.startedAt + EXERCISES["wrist_exercise"].duration

\* C10: once an exercise has completed, the persisted record, the tracker's
\* stats and the leveling engine's stats are one and the same record.
C10_OneUserStats ==
  nextId > 1 =>
    /\ storedStats = <<currentStats>>
    /\ currentStats = userStats

(***************************************************************************)
(* The tracker over several days: sessions run from the picker to their    *)
(* completion, and time passing in between                                 *)
(***************************************************************************)
\* executeExercise for exercise e, begun now, with every step running its
\* countdown out
CompleteExercise(e) ==
  /\ sessionsStarted < MaxCompletions
  /\ DayOf(now + EXERCISES[e].duration) <= MaxDay
  /\ sessionsStarted' = sessionsStarted + 1
  /\ now' = now + EXERCISES[e].duration
  /\ Completes(e, now, now + EXERCISES[e].duration)
  /\ UNCHANGED <<reminderVars, configVars, flows, probe>>

NextTracker ==
  \/ \E e \in ExerciseIds : CompleteExercise(e)
  \/ IdlePass

SpecTracker == Init /\ [][NextTracker]_vars

\* C38: the tracker's longestStreak is at least its streak, the streak is
\* never negative, and longestStreak never gets lower, over recorded
\* exercises and days passing from the default stats on.
C38_LongestStreakBounds ==
  /\ [](currentStats.longestStreak >= currentStats.streak /\ currentStats.streak >= 0)
  /\ [][currentStats'.longestStreak >= currentStats.longestStreak]_vars

\* exercises on three days running have brought both to three
C38_ThreeDayStreak ==
  /\ DayOf(now) = 2
  /\ currentStats.streak = 3
  /\ currentStats.longestStreak = 3
  /\ \A d \in 0..2 : \E i \in 1..Len(activities) : DayOf(activities[i].createdAt) = d

hasActivityOn(log, day) == \E i \in 1..Len(log) : DayOf(log[i].createdAt) = day

\* the number of consecutive calendar days, ending with day, on each of
\* which the log has an activity
RECURSIVE RunEnding(_, _)
RunEnding(log, day) ==
  IF day < 0 \/ ~hasActivityOn(log, day) THEN 0
  ELSE 1 + RunEnding(log, day - 1)

\* C6: an activity recorded on a day that already has an activity does not
\* raise the streak again.
C6_SameDayRaisesOnce ==
  [][(nextId' = nextId + 1 /\ hasActivityOn(activities, DayOf(now')))
       => currentStats'.streak <= currentStats.streak]_vars

\* C7: the streak is never negative and never more than the run of
\* consecutive active days that ends today (or, while today has no activity
\* yet, the run that ended yesterday).
C7_StreakWithinRun ==
  /\ currentStats.streak >= 0
  /\ currentStats.streak <=
       IF hasActivityOn(activities, DayOf(now))
       THEN RunEnding(activities, DayOf(now))
       ELSE RunEnding(activities, DayOf(now) - 1)

(***************************************************************************)
(* updateStreak on drawn stats and logs                                    *)
(***************************************************************************)
\* a log with one activity, at 09:00, on each day of the set active
RECURSIVE DayLog(_, _, _)
DayLog(active, day, id) ==
  IF day > MaxDay THEN <<>>
  ELSE IF day \in active
  THEN LET t == day * DaySeconds + 9 * 3600
       IN <<fullActivity(completionActivity("eye_exercise", t, t + 60), id, t + 60)>>
          \o DayLog(active, day + 1, id + 1)
  ELSE DayLog(active, day + 1, id)

InitStreak ==
  \E today \in 0..MaxDay, s \in 0..MaxStreak, l \in 0..MaxStreak :
    \E active \in SUBSET (0..today) :
      LET t == today * DaySeconds + 10 * 3600
          stats == [DefaultStats EXCEPT !.streak = s, !.longestStreak = l]
          log == DayLog(active, 0, 1)
      IN /\ l >= s
         /\ Loaded(t, [FreshRecords(t) EXCEPT !.activities = log,
                                              !.nextId = Len(log) + 1,
                                              !.currentStats = stats,
                                              !.userStats = stats,
                                              !.storedStats = <<stats>>])

\* updateStreak, evaluated on the stats and the log as they are
ApplyUpdateStreak ==
  /\ probe = NoProbe
  /\ LET after == updateStreak(currentStats, activities, now)
     IN /\ probe' = [fn |-> "updateStreak", at |-> now, before |-> currentStats,
                     after |-> after]
        /\ currentStats' = after
        /\ storedStats' = <<after>>
  /\ UNCHANGED <<now, activities, storedUnlocked, storedQuest, nextId, gameVars,
                 reminderVars, configVars, flowVars>>

NextStreak ==
  \/ ApplyUpdateStreak
  \/ IdlePass

SpecStreak == InitStreak /\ [][NextStreak]_vars

\* C8: updateStreak on streak 0, with an activity today and none yesterday,
\* gives streak 1 and longestStreak max(longestStreak, 1).
C8_StreakStartsAtOne ==
  (/\ probe.fn = "updateStreak"
   /\ probe.before.streak = 0
   /\ hasActivityOn(activities, DayOf(probe.at))
   /\ ~hasActivityOn(activities, DayOf(probe.at) - 1))
    => /\ probe.after.streak = 1
       /\ probe.after.longestStreak = Max(probe.before.longestStreak, 1)

\* updateStreak has run on streak 0 and a longestStreak above 1, with an
\* activity today and none yesterday
C8_StartedWithHistory ==
  /\ probe.fn = "updateStreak"
  /\ probe.before.streak = 0
  /\ probe.before.longestStreak > 1
  /\ hasActivityOn(activities, DayOf(probe.at))
  /\ ~hasActivityOn(activities, DayOf(probe.at) - 1)

\* C9: updateStreak on a streak above 0, with no activity today and none
\* yesterday, gives streak 0 and leaves longestStreak alone.
C9_StreakResets ==
  (/\ probe.fn = "updateStreak"
   /\ probe.before.streak > 0
   /\ ~hasActivityOn(activities, DayOf(probe.at))
   /\ ~hasActivityOn(activities, DayOf(probe.at) - 1))
    => /\ probe.after.streak = 0
       /\ probe.after.longestStreak = probe.before.longestStreak

\* updateStreak has run on a streak of MaxStreak with neither today nor
\* yesterday active, though earlier days are
C9_ResetFromLongStreak ==
  /\ probe.fn = "updateStreak"
  /\ probe.before.streak = MaxStreak
  /\ activities # <<>>
  /\ ~hasActivityOn(activities, DayOf(probe.at))
  /\ ~hasActivityOn(activities, DayOf(probe.at) - 1)

(***************************************************************************)
(* calculateHealthScore on day logs of every shape                         *)
(***************************************************************************)
SeedExercises == <<"eye_exercise", "wrist_exercise", "walking_break">>

\* seconds after midnight at which the first activity of a drawn day starts
SeedFirstStarts == {1800, 8 * 3600}

\* minutes from the start of one drawn activity to the start of the next
SeedGaps == {45, 75, 100, 130}

\* seconds between the last drawn activity and the evaluation
SeedWaits == {600, 6000}

\* n sessions over kinds different exercises, gap minutes apart
Seed(n, kinds, first, gap) ==
  [i \in 1..n |->
     LET e == SeedExercises[((i - 1) % kinds) + 1]
         t == first + (i - 1) * gap * 60
     IN [e |-> e, startTime |-> t, endTime |-> t + EXERCISES[e].duration]]

\* the records after the sessions of seed have completed, in order
RECURSIVE Replay(_, _)
Replay(st, seed) ==
  IF seed = <<>> THEN st
  ELSE Replay(handleExerciseCompletion(st, seed[1].e, seed[1].startTime,
                                       seed[1].endTime, TRUE),
              Tail(seed))

InitScore ==
  \E n \in 0..MaxSeed, kinds \in 1..3, first \in SeedFirstStarts,
     gap \in SeedGaps, wait \in SeedWaits :
    LET seed == Seed(n, kinds, first, gap)
        t == IF n = 0 THEN first + wait ELSE seed[n].endTime + wait
    IN Loaded(t, Replay(FreshRecords(first), seed))

\* calculateHealthScore, called on the log as it is
EvaluateHealthScore ==
  /\ probe' = [fn |-> "calculateHealthScore", at |-> now,
               result |-> calculateHealthScore(activities, now)]
  /\ probe' # probe
  /\ UNCHANGED <<now, storeVars, trackerVars, gameVars, reminderVars, configVars,
                 flowVars>>

NextScore ==
  \/ EvaluateHealthScore
  \/ \E e \in ExerciseIds : CompleteExercise(e)

SpecScore == InitScore /\ [][NextScore]_vars

\* C5: calculateHealthScore returns an integer from 0 to 100, and the
\* healthScore of the tracker's stats, of the leveling engine's stats and of
\* the persisted record is an integer from 0 to 100 in every state.
C5_HealthScoreInRange ==
  /\ probe.fn = "calculateHealthScore" => probe.result \in 0..100
  /\ currentStats.healthScore \in 0..100
  /\ userStats.healthScore \in 0..100
  /\ storedStats # <<>> => storedStats[1].healthScore \in 0..100

\* the score has been evaluated on a day without activities, where every
\* penalty is at its largest, after the tracker has stored a score
C5_SaturatedScore ==
  /\ probe.fn = "calculateHealthScore"
  /\ probe.result = 0
  /\ getActivitiesForDate(activities, probe.at) = <<>>
  /\ activities # <<>>
  /\ currentStats.healthScore < 100

\* C15: the stored log never has more than ActivityCap entries; recording
\* on a full log drops exactly the oldest entry, keeps the others as they
\* are and in order, and puts the new activity last.
C15_LogCappedOldestFirst ==
  /\ [](Len(activities) <= ActivityCap)
  /\ [][nextId' = nextId + 1
         => LET new == activities'[Len(activities')]
            IN /\ new.id = nextId
               /\ new.createdAt = now'
               /\ activities' = IF Len(activities) = ActivityCap
                                 THEN Append(Tail(activities), new)
                                 ELSE Append(activities, new)]_vars

\* the log is full and its oldest entries have been dropped
C15_HeadDropped ==
  /\ Len(activities) = ActivityCap
  /\ activities[1].id > 2
  /\ activities[ActivityCap].id = activities[1].id + ActivityCap - 1

(***************************************************************************)
(* calculateHealthScore evaluated again later on the same log              *)
(***************************************************************************)
NextRescore ==
  \/ EvaluateHealthScore
  \/ IdlePass

SpecRescore == InitScore /\ [][NextRescore]_vars

\* C22: two evaluations of calculateHealthScore on the same day, over the
\* same activities, return the same score, whatever the time of day of each.
C22_ScoreIndependentOfClock ==
  [][(/\ probe.fn = "calculateHealthScore"
      /\ probe'.fn = "calculateHealthScore"
      /\ DayOf(probe'.at) = DayOf(probe.at)
      /\ activities' = activities)
       => probe'.result = probe.result]_vars

(***************************************************************************)
(* calculateHealthScore on day logs that include a 180-second exercise     *)
(***************************************************************************)
ScoreCaseExercises ==
  <<"desk_squats", "eye_exercise", "wrist_exercise", "walking_break">>

\* n sessions over the first kinds exercises of ScoreCaseExercises
ScoreCaseSeed(n, kinds, first, gap) ==
  [i \in 1..n |->
     LET e == ScoreCaseExercises[((i - 1) % kinds) + 1]
         t == first + (i - 1) * gap * 60
     IN [e |-> e, startTime |-> t, endTime |-> t + EXERCISES[e].duration]]

InitScoreCase ==
  \E n \in 0..MaxSeed, kinds \in 1..Len(ScoreCaseExercises),
     first \in SeedFirstStarts, gap \in SeedGaps, wait \in SeedWaits :
    LET seed == ScoreCaseSeed(n, kinds, first, gap)
        t == IF n = 0 THEN first + wait ELSE seed[n].endTime + wait
    IN Loaded(t, Replay(FreshRecords(first), seed))

SpecScoreCase == InitScoreCase /\ [][NextRescore]_vars

\* C23: calculateHealthScore is 100 less four penalties, kept within 0..100:
\* breaks/8 (< 0.5: 40; < 0.7: 20; < 0.9: 10), the longest sitting gap in
\* minutes (> 120: 30; > 90: 20; > 60: 10; 480 without activities), whole
\* exercise minutes (< 10: 15; < 20: 8) and distinct exercises (< 2: 15;
\* < 3: 8).  Without activities the score is 0, and with one 180-second
\* activity of one exercise it is 0.
C23_ScoreIsReference ==
  probe.fn = "calculateHealthScore"
    => LET today == getActivitiesForDate(activities, probe.at)
           breaks == Len(today)
           gap == calculateLongestSittingStreak(today, probe.at)
           minutes == SumDuration(today) \div 60
           distinct == Cardinality({today[i].exerciseId : i \in 1..Len(today)})
           ratioPenalty == IF 10 * breaks < 5 * 8 THEN 40
                           ELSE IF 10 * breaks < 7 * 8 THEN 20
                           ELSE IF 10 * breaks < 9 * 8 THEN 10 ELSE 0
           gapPenalty == IF gap > 120 THEN 30 ELSE IF gap > 90 THEN 20
                         ELSE IF gap > 60 THEN 10 ELSE 0
           minutesPenalty == IF minutes < 10 THEN 15
                             ELSE IF minutes < 20 THEN 8 ELSE 0
           varietyPenalty == IF distinct < 2 THEN 15
                             ELSE IF distinct < 3 THEN 8 ELSE 0
           raw == 100 - ratioPenalty - gapPenalty - minutesPenalty - varietyPenalty
       IN /\ probe.result = Max(0, Min(100, raw))
          /\ breaks = 0 => gap = 480 /\ probe.result = 0
          /\ (breaks = 1 /\ today[1].duration = 180) => probe.result = 0

(***************************************************************************)
(* HealthReminderService: the minute tick and what answers it              *)
(***************************************************************************)
Frequencies == {"smart", "30min", "60min", "90min"}

\* the interval taken one minute longer than the setting names
fixedMinutesExclusive(freq) ==
  CASE freq = "30min" -> 31
    [] freq = "60min" -> 61
    [] freq = "90min" -> 91

\* parseInt(frequency.replace('min', ''))
fixedMinutes(freq) ==
  CASE freq = "30min" -> 30
    [] freq = "60min" -> 60
    [] freq = "90min" -> 90

\* codefit.doNotDisturb.hours as installed: "12:00-13:00", "15:00-16:00"
DoNotDisturbHours ==
  << [startHour |-> 12, startMin |-> 0, endHour |-> 13, endMin |-> 0],
     [startHour |-> 15, startMin |-> 0, endHour |-> 16, endMin |-> 0] >>

\* isPaused with the end of the snooze still counted as snoozed
isPausedInclusive(isPausedFlag, until, t) ==
  isPausedFlag \/ (until # NoTime /\ t <= until)

isPaused(isPausedFlag, until, t) == isPausedFlag \/ (until # NoTime /\ t < until)

isDoNotDisturbTime(enabled, hours, t) ==
  /\ enabled
  /\ \E i \in 1..Len(hours) :
       LET startMinutes == hours[i].startHour * 60 + hours[i].startMin
           endMinutes == hours[i].endHour * 60 + hours[i].endMin
       IN MinuteOfDay(t) >= startMinutes /\ MinuteOfDay(t) <= endMinutes

\* shouldShowReminder without the input-intensity return
shouldShowReminderAnyIntensity(context, freq, coin, t) ==
  IF context.isDebugging THEN FALSE
  ELSE IF freq = "smart"
  THEN IF context.consecutiveWorkMinutes >= 120 THEN TRUE
       ELSE IF context.consecutiveWorkMinutes >= 90 THEN TRUE
       ELSE IF context.consecutiveWorkMinutes >= 45 /\ context.todayBreakCount < 8
       THEN coin
       ELSE /\ context.lastCommitTime # NoTime
            /\ t - context.lastCommitTime < 5 * 60
            /\ t - context.lastCommitTime > 1 * 60
  ELSE context.consecutiveWorkMinutes >= fixedMinutes(freq)

\* shouldShowReminder; coin is the outcome of Math.random() > 0.5
shouldShowReminder(context, freq, coin, t) ==
  IF context.isDebugging THEN FALSE
  ELSE IF context.codeInputFrequency > 50 THEN FALSE
  ELSE IF freq = "smart"
  THEN IF context.consecutiveWorkMinutes >= 120 THEN TRUE
       ELSE IF context.consecutiveWorkMinutes >= 90 THEN TRUE
       ELSE IF context.consecutiveWorkMinutes >= 45 /\ context.todayBreakCount < 8
       THEN coin
       ELSE /\ context.lastCommitTime # NoTime
            /\ t - context.lastCommitTime < 5 * 60
            /\ t - context.lastCommitTime > 1 * 60
  ELSE context.consecutiveWorkMinutes >= fixedMinutes(freq)

\* the severity with the two-hour mark itself left to 'standard'
severityOfAfterTwoHours(minutes) ==
  IF minutes > 120 THEN "strong" ELSE IF minutes < 60 THEN "light" ELSE "standard"

\* the severity showReminder picks
severityOf(minutes) ==
  IF minutes >= 120 THEN "strong" ELSE IF minutes < 60 THEN "light" ELSE "standard"

getReminderActions(severity) ==
  IF severity = "strong" THEN {"Take 5-min Break", "Take 3-min Break"}
  ELSE IF severity = "standard" THEN {"3-min Exercise", "Quick Walk", "Snooze 15min"}
  ELSE {"1-min Stretch", "Eye Exercise", "Snooze 30min"}

ReminderResponses ==
  {"Take 5-min Break", "3-min Exercise", "Snooze 15min", "1-min Stretch",
   "Snooze 30min", "dismissed"}

\* the minutes handleReminderResponse derives from an exercise choice
responseMinutes(response) ==
  IF response = "Take 5-min Break" THEN 5
  ELSE IF response \in {"Take 3-min Break", "3-min Exercise"} THEN 3
  ELSE 1

\* the minutes handleReminderResponse derives from a snooze choice
snoozeMinutes(response) == IF response = "Snooze 15min" THEN 15 ELSE 30

RemoveAt(seq, i) == SubSeq(seq, 1, i - 1) \o SubSeq(seq, i + 1, Len(seq))

\* what a checkAndNotify call at time t found, and whether it showed a prompt
tickRecord(t, shown) ==
  [fn |-> "checkAndNotify", at |-> t, paused |-> paused,
   snoozedUntil |-> snoozedUntil, dndEnabled |-> dndEnabled,
   debugging |-> debugging, codeInputFrequency |-> codeInputFrequency,
   consecutiveWorkMinutes |-> consecutiveWorkMinutes, frequency |-> frequency,
   shown |-> shown,
   severity |-> IF shown THEN severityOf(consecutiveWorkMinutes + 1) ELSE "none",
   actions |-> IF shown
               THEN getReminderActions(severityOf(consecutiveWorkMinutes + 1))
               ELSE {}]

\* the interval of start() fires: checkAndNotify up to the point where it
\* waits for the answer to its prompt, or to its end when it shows none
\* (codefit.reminder.style as installed, 'toast')
Tick ==
  LET t == now + 60
      minutes == consecutiveWorkMinutes + 1
  IN /\ ticks < MaxTicks
     /\ ticks' = ticks + 1
     /\ now' = t
     /\ IF \/ isPaused(paused, snoozedUntil, t)
           \/ isDoNotDisturbTime(dndEnabled, DoNotDisturbHours, t)
        THEN /\ probe' = tickRecord(t, FALSE)
             /\ UNCHANGED <<consecutiveWorkMinutes, reminderPrompts, storedReminder>>
        ELSE \E coin \in BOOLEAN :
               LET context == [isDebugging |-> debugging,
                               codeInputFrequency |-> codeInputFrequency,
                               lastCommitTime |-> lastCommitTime,
                               consecutiveWorkMinutes |-> minutes,
                               todayBreakCount |-> todayBreakCount]
                   show == shouldShowReminder(context, frequency, coin, t)
               IN /\ consecutiveWorkMinutes' = minutes
                  /\ probe' = tickRecord(t, show)
                  /\ IF show
                     THEN /\ reminderPrompts' = Append(reminderPrompts, severityOf(minutes))
                          /\ UNCHANGED storedReminder
                     ELSE /\ storedReminder' =
                               << [reminderState EXCEPT !.consecutiveWorkMinutes = minutes] >>
                          /\ UNCHANGED reminderPrompts
     /\ UNCHANGED <<paused, snoozedUntil, lastCommitTime, codeInputFrequency,
                    todayBreakCount, recentInputs, storeVars, trackerVars, gameVars,
                    configVars, flowVars>>

\* RespondReminder with a dismissed prompt counted as a break taken
RespondReminderDismissResets(i, response) ==
  /\ i \in 1..Len(reminderPrompts)
  /\ response \in getReminderActions(reminderPrompts[i]) \cup {"dismissed"}
  /\ reminderPrompts' = RemoveAt(reminderPrompts, i)
  /\ IF response = "dismissed"
     THEN /\ consecutiveWorkMinutes' = 0
          /\ storedReminder' = << [reminderState EXCEPT !.consecutiveWorkMinutes = 0] >>
          /\ UNCHANGED <<snoozedUntil, flows>>
     ELSE IF response \in {"Snooze 15min", "Snooze 30min"}
     THEN /\ snoozedUntil' = now + snoozeMinutes(response) * 60
          /\ storedReminder' = << [reminderState EXCEPT !.snoozedUntil = snoozedUntil'] >>
          /\ UNCHANGED <<flows, consecutiveWorkMinutes>>
     ELSE /\ OpenPicker("reminder", responseMinutes(response) * 60)
          /\ UNCHANGED <<snoozedUntil, storedReminder, consecutiveWorkMinutes>>
  /\ UNCHANGED <<now, paused, lastCommitTime, codeInputFrequency,
                 todayBreakCount, recentInputs, ticks, storeVars, trackerVars, gameVars,
                 configVars, sessionsStarted, probe>>

\* the i-th open reminder is answered: the rest of showReminder and of the
\* checkAndNotify call that raised it, up to the picker if one is opened
RespondReminder(i, response) ==
  /\ i \in 1..Len(reminderPrompts)
  /\ response \in getReminderActions(reminderPrompts[i]) \cup {"dismissed"}
  /\ reminderPrompts' = RemoveAt(reminderPrompts, i)
  /\ IF response = "dismissed"
     THEN /\ storedReminder' = <<reminderState>>
          /\ UNCHANGED <<snoozedUntil, flows>>
     ELSE IF response \in {"Snooze 15min", "Snooze 30min"}
     THEN /\ snoozedUntil' = now + snoozeMinutes(response) * 60
          /\ storedReminder' = << [reminderState EXCEPT !.snoozedUntil = snoozedUntil'] >>
          /\ UNCHANGED flows
     ELSE /\ OpenPicker("reminder", responseMinutes(response) * 60)
          /\ UNCHANGED <<snoozedUntil, storedReminder>>
  /\ UNCHANGED <<now, paused, lastCommitTime, consecutiveWorkMinutes, codeInputFrequency,
                 todayBreakCount, recentInputs, ticks, storeVars, trackerVars, gameVars,
                 configVars, sessionsStarted, probe>>

\* codefit.pauseReminders: resume() when isPaused(), pause() otherwise
PauseRemindersCommand ==
  /\ IF isPaused(paused, snoozedUntil, now)
     THEN /\ paused' = FALSE
          /\ snoozedUntil' = NoTime
     ELSE /\ paused' = TRUE
          /\ UNCHANGED snoozedUntil
  /\ storedReminder' = << [reminderState EXCEPT !.paused = paused',
                                                !.snoozedUntil = snoozedUntil'] >>
  /\ UNCHANGED <<now, lastCommitTime, consecutiveWorkMinutes, codeInputFrequency,
                 todayBreakCount, recentInputs, reminderPrompts, ticks, storeVars,
                 trackerVars, gameVars, configVars, flowVars, probe>>

\* codefit.snooze: snooze(30)
SnoozeCommand ==
  /\ snoozedUntil' = now + 30 * 60
  /\ snoozedUntil' # snoozedUntil
  /\ storedReminder' = << [reminderState EXCEPT !.snoozedUntil = snoozedUntil'] >>
  /\ UNCHANGED <<now, paused, lastCommitTime, consecutiveWorkMinutes, codeInputFrequency,
                 todayBreakCount, recentInputs, reminderPrompts, ticks, storeVars,
                 trackerVars, gameVars, configVars, flowVars, probe>>

\* a debug session starts or ends
DebugSessionChanges ==
  /\ debugging' = ~debugging
  /\ UNCHANGED <<now, storeVars, trackerVars, gameVars, reminderVars, flowVars,
                 gamificationEnabled, frequency, dndEnabled, authSession,
                 firebaseToken, git, probe>>

InputSizes == {30}

RECURSIVE SumSeq(_)
SumSeq(seq) == IF seq = <<>> THEN 0 ELSE seq[1] + SumSeq(Tail(seq))

\* onDidChangeTextDocument with charCount characters changed
ChangeTextDocument(charCount) ==
  LET pushed == Append(recentInputs, charCount)
      kept == IF Len(pushed) > InputWindow THEN Tail(pushed) ELSE pushed
  IN /\ recentInputs' = kept
     /\ recentInputs' # recentInputs
     /\ codeInputFrequency' = SumSeq(kept)
     /\ UNCHANGED <<now, paused, snoozedUntil, lastCommitTime, consecutiveWorkMinutes,
                    todayBreakCount, storedReminder, reminderPrompts, ticks, storeVars,
                    trackerVars, gameVars, configVars, flowVars, probe>>

\* times of day at which the reminder service is started
ReminderStarts == {11 * 3600 + 58 * 60, 12 * 3600 + 59 * 60}

\* consecutiveWorkMinutes found in the stored reminder state
StoredWorkMinutes == {29, 59, 119}

InitReminder ==
  \E freq \in Frequencies, dnd \in BOOLEAN, t \in ReminderStarts,
     minutes \in StoredWorkMinutes, committed \in BOOLEAN :
    LoadedWith(t, FreshRecords(t),
               << [paused |-> FALSE,
                   snoozedUntil |-> NoTime,
                   lastCommitTime |-> IF committed THEN t - 30 ELSE NoTime,
                   consecutiveWorkMinutes |-> minutes,
                   todayBreakCount |-> 0] >>,
               [frequency |-> freq, dndEnabled |-> dnd])

NextReminder ==
  \/ Tick
  \/ \E i \in 1..MaxTicks, r \in ReminderResponses : RespondReminder(i, r)
  \/ PauseRemindersCommand
  \/ SnoozeCommand
  \/ DebugSessionChanges
  \/ \E charCount \in InputSizes : ChangeTextDocument(charCount)
  \/ \E f \in FlowIds : DismissPicker(f)

SpecReminder == InitReminder /\ [][NextReminder]_vars

\* minute-of-day containment, ends included, in one of the configured windows
InsideWindow(t) ==
  \/ 12 * 60 <= MinuteOfDay(t) /\ MinuteOfDay(t) <= 13 * 60
  \/ 15 * 60 <= MinuteOfDay(t) /\ MinuteOfDay(t) <= 16 * 60

\* C1: a tick that finds reminders paused, the time before snoozedUntil, the
\* time inside an enabled Do-Not-Disturb window, a debug session active or
\* codeInputFrequency above 50 shows no reminder prompt, whatever
\* consecutiveWorkMinutes and the frequency setting are.
C1_SuppressedTickShowsNothing ==
  [][(/\ ticks' = ticks + 1
      /\ \/ paused
         \/ snoozedUntil # NoTime /\ now' < snoozedUntil
         \/ dndEnabled /\ InsideWindow(now')
         \/ debugging
         \/ codeInputFrequency > 50)
       => reminderPrompts' = reminderPrompts]_vars

\* a tick whose only suppressor was the input intensity has shown nothing
\* although consecutiveWorkMinutes reached 120
C1_IntenseTickSuppressed ==
  /\ probe.fn = "checkAndNotify"
  /\ probe.codeInputFrequency > 50
  /\ ~probe.paused
  /\ probe.snoozedUntil = NoTime
  /\ ~probe.debugging
  /\ ~(probe.dndEnabled /\ InsideWindow(probe.at))
  /\ probe.consecutiveWorkMinutes + 1 >= 120
  /\ consecutiveWorkMinutes >= 120
  /\ ~probe.shown
  /\ reminderPrompts = <<>>

\* C40: a tick suppressed by pause, snooze or a Do-Not-Disturb window leaves
\* consecutiveWorkMinutes and all other reminder state unchanged; every other
\* tick raises consecutiveWorkMinutes by exactly 1 and changes no other field,
\* also when debugging or an input intensity above 50 withholds the prompt;
\* a prompt dismissed without a choice changes no field of the reminder state
\* and leaves the saved state equal to the fields; and a tick that nothing
\* suppresses or withholds fires once the elapsed minutes are 90 or more in
\* smart mode, or the configured minutes or more in a fixed mode.
C40_TickWorkMinutes ==
  [][/\ (ticks' = ticks + 1) =>
          LET suppressed == \/ paused
                            \/ snoozedUntil # NoTime /\ now' < snoozedUntil
                            \/ dndEnabled /\ InsideWindow(now')
              withheld == debugging \/ codeInputFrequency > 50
              elapsed == consecutiveWorkMinutes + 1
              threshold == IF frequency = "smart" THEN 90 ELSE fixedMinutes(frequency)
          IN /\ suppressed => /\ reminderState' = reminderState
                              /\ codeInputFrequency' = codeInputFrequency
                              /\ storedReminder' = storedReminder
                              /\ reminderPrompts' = reminderPrompts
             /\ ~suppressed =>
                  /\ reminderState' =
                       [reminderState EXCEPT !.consecutiveWorkMinutes = elapsed]
                  /\ codeInputFrequency' = codeInputFrequency
             /\ ~suppressed /\ withheld => reminderPrompts' = reminderPrompts
             /\ ~suppressed /\ ~withheld /\ elapsed >= threshold =>
                  reminderPrompts' = Append(reminderPrompts, severityOf(elapsed))
     /\ (/\ Len(reminderPrompts') < Len(reminderPrompts)
         /\ flows' = flows
         /\ snoozedUntil' = snoozedUntil) =>
          /\ reminderState' = reminderState
          /\ codeInputFrequency' = codeInputFrequency
          /\ storedReminder' = <<reminderState>>]_vars

\* the prompt of the first tick was dismissed, the elapsed minutes stayed
\* where that tick left them, and the second tick has fired again
C40_FiresAgainAfterDismissal ==
  /\ ticks = 2
  /\ probe.fn = "checkAndNotify"
  /\ probe.shown
  /\ Len(reminderPrompts) = 1
  /\ ~paused
  /\ snoozedUntil = NoTime
  /\ storedReminder = << [reminderState EXCEPT
                            !.consecutiveWorkMinutes = probe.consecutiveWorkMinutes] >>
  /\ consecutiveWorkMinutes = probe.consecutiveWorkMinutes + 1
  /\ probe.consecutiveWorkMinutes >=
       (IF frequency = "smart" THEN 90 ELSE fixedMinutes(frequency))
  /\ \A f \in FlowIds : flows[f].phase = "idle"

\* C19: a smart-mode tick that nothing suppresses fires when the elapsed
\* minutes are 90 or more; outside the band of 45 to 59 minutes with fewer
\* than 8 breaks (where a random draw decides) and below 90 minutes it fires
\* exactly when a commit lies more than 1 and less than 5 minutes back.
C19_SmartBands ==
  [][(/\ ticks' = ticks + 1
      /\ frequency = "smart"
      /\ ~paused
      /\ ~(snoozedUntil # NoTime /\ now' < snoozedUntil)
      /\ ~(dndEnabled /\ InsideWindow(now'))
      /\ ~debugging
      /\ codeInputFrequency <= 50)
       => LET elapsed == consecutiveWorkMinutes + 1
              fired == reminderPrompts' # reminderPrompts
              drawn == elapsed >= 45 /\ elapsed < 60 /\ todayBreakCount < 8
              postCommit == /\ lastCommitTime # NoTime
                            /\ now' - lastCommitTime > 60
                            /\ now' - lastCommitTime < 300
          IN /\ elapsed >= 90 => fired
             /\ (elapsed < 90 /\ ~drawn) => (fired <=> postCommit)]_vars

(***************************************************************************)
(* The smart-mode tick at the ends of the post-commit window               *)
(***************************************************************************)
\* seconds between the stored last commit and the start of the service;
\* NoTime stands for no commit
CommitAges == {NoTime, 0, 30, 240}

InitCommitTick ==
  \E dnd \in BOOLEAN, t \in ReminderStarts, age \in CommitAges :
    LoadedWith(t, FreshRecords(t),
               << [paused |-> FALSE,
                   snoozedUntil |-> NoTime,
                   lastCommitTime |-> IF age = NoTime THEN NoTime ELSE t - age,
                   consecutiveWorkMinutes |-> 29,
                   todayBreakCount |-> 0] >>,
               [frequency |-> "smart", dndEnabled |-> dnd])

SpecCommitTick == InitCommitTick /\ [][NextReminder]_vars

\* C24: a smart-mode tick that nothing suppresses and that no
\* elapsed-minutes rule decides fires exactly when there is a last commit
\* and the time since it is at least 1 minute and less than 5 minutes.
C24_PostCommitWindow ==
  [][(/\ ticks' = ticks + 1
      /\ frequency = "smart"
      /\ ~paused
      /\ ~(snoozedUntil # NoTime /\ now' < snoozedUntil)
      /\ ~(dndEnabled /\ InsideWindow(now'))
      /\ ~debugging
      /\ codeInputFrequency <= 50
      /\ consecutiveWorkMinutes + 1 < 90
      /\ ~(/\ consecutiveWorkMinutes + 1 >= 45
           /\ consecutiveWorkMinutes + 1 < 60
           /\ todayBreakCount < 8))
       => LET fired == reminderPrompts' # reminderPrompts
              t == now' - lastCommitTime
          IN fired <=> (lastCommitTime # NoTime /\ t >= 60 /\ t < 300)]_vars

(***************************************************************************)
(* The tick under a fixed reminder frequency                               *)
(***************************************************************************)
FixedFrequencies == {"30min", "60min", "90min"}

\* consecutiveWorkMinutes found in the stored reminder state: one and two
\* minutes short of each interval
FixedWorkMinutes == {28, 29, 58, 59, 88, 89}

\* todayBreakCount found in the stored reminder state
FixedBreakCounts == {0, 8}

InitFixed ==
  \E freq \in FixedFrequencies, minutes \in FixedWorkMinutes,
     breaks \in FixedBreakCounts, committed \in BOOLEAN :
    LET t == 11 * 3600 + 58 * 60
    IN LoadedWith(t, FreshRecords(t),
                  << [paused |-> FALSE,
                      snoozedUntil |-> NoTime,
                      lastCommitTime |-> IF committed THEN t - 30 ELSE NoTime,
                      consecutiveWorkMinutes |-> minutes,
                      todayBreakCount |-> breaks] >>,
                  [frequency |-> freq, dndEnabled |-> TRUE])

SpecFixed == InitFixed /\ [][NextReminder]_vars

\* C25: under a fixed frequency a tick that nothing suppresses fires exactly
\* when consecutiveWorkMinutes, after the tick's increment, is at least the
\* 30, 60 or 90 minutes of the setting, whatever todayBreakCount, the last
\* commit and the random draw are.
C25_FixedInterval ==
  [][(/\ ticks' = ticks + 1
      /\ frequency \in FixedFrequencies
      /\ ~paused
      /\ ~(snoozedUntil # NoTime /\ now' < snoozedUntil)
      /\ ~(dndEnabled /\ InsideWindow(now'))
      /\ ~debugging
      /\ codeInputFrequency <= 50)
       => LET interval == CASE frequency = "30min" -> 30
                            [] frequency = "60min" -> 60
                            [] frequency = "90min" -> 90
          IN /\ consecutiveWorkMinutes' = consecutiveWorkMinutes + 1
             /\ (reminderPrompts' # reminderPrompts)
                  <=> (consecutiveWorkMinutes' >= interval)]_vars

\* a tick under the 90-minute setting has fired on exactly 90 minutes, with
\* 8 breaks taken today and no commit
C25_FiredAtInterval ==
  /\ probe.fn = "checkAndNotify"
  /\ probe.frequency = "90min"
  /\ probe.consecutiveWorkMinutes = 89
  /\ probe.shown
  /\ consecutiveWorkMinutes = 90
  /\ todayBreakCount = 8
  /\ lastCommitTime = NoTime
  /\ reminderPrompts # <<>>

(***************************************************************************)
(* The severity of a reminder and the answers it offers                    *)
(***************************************************************************)
\* consecutiveWorkMinutes found in the stored reminder state: one and two
\* minutes short of 45, 60, 90 and 120
SeverityWorkMinutes == {43, 44, 58, 59, 88, 89, 118, 119}

AllReminderResponses ==
  {"Take 5-min Break", "Take 3-min Break", "3-min Exercise", "Quick Walk",
   "Snooze 15min", "1-min Stretch", "Eye Exercise", "Snooze 30min", "dismissed"}

InitSeverity ==
  \E freq \in {"smart", "30min"}, minutes \in SeverityWorkMinutes,
     committed \in BOOLEAN :
    LET t == 10 * 3600
    IN LoadedWith(t, FreshRecords(t),
                  << [paused |-> FALSE,
                      snoozedUntil |-> NoTime,
                      lastCommitTime |-> IF committed THEN t - 30 ELSE NoTime,
                      consecutiveWorkMinutes |-> minutes,
                      todayBreakCount |-> 0] >>,
                  [frequency |-> freq, dndEnabled |-> TRUE])

NextSeverity ==
  \/ Tick
  \/ \E i \in 1..MaxTicks, r \in AllReminderResponses : RespondReminder(i, r)
  \/ \E f \in FlowIds : DismissPicker(f)

SpecSeverity == InitSeverity /\ [][NextSeverity]_vars

\* C26: a reminder shown by a tick has one severity, given by the elapsed
\* minutes alone (strong from 120 on, standard from 90 to 119, light from 45
\* to 59), and offers the answers of that severity: strong two break
\* lengths and no snooze, standard exercise, walk and a snooze of 15
\* minutes, light stretch, eye exercise and a snooze of 30 minutes.
C26_SeverityAndActions ==
  /\ []((probe.fn = "checkAndNotify" /\ probe.shown)
          => LET elapsed == probe.consecutiveWorkMinutes + 1
             IN /\ probe.severity \in {"strong", "standard", "light"}
                /\ probe.severity = "strong" <=> elapsed >= 120
                /\ probe.severity = "light" <=> elapsed < 60
                /\ (elapsed >= 90 /\ elapsed < 120) => probe.severity = "standard"
                /\ (elapsed >= 45 /\ elapsed < 60) => probe.severity = "light"
                /\ probe.actions =
                     CASE probe.severity = "strong" ->
                            {"Take 5-min Break", "Take 3-min Break"}
                       [] probe.severity = "standard" ->
                            {"3-min Exercise", "Quick Walk", "Snooze 15min"}
                       [] probe.severity = "light" ->
                            {"1-min Stretch", "Eye Exercise", "Snooze 30min"})
  /\ [][(ticks' = ticks + 1 /\ reminderPrompts' # reminderPrompts)
         => reminderPrompts' = Append(reminderPrompts, probe'.severity)]_vars
  /\ [][Len(reminderPrompts') < Len(reminderPrompts)
         => \E i \in 1..Len(reminderPrompts) :
              LET severity == reminderPrompts[i]
              IN /\ reminderPrompts' = RemoveAt(reminderPrompts, i)
                 /\ snoozedUntil' # snoozedUntil
                      => /\ severity # "strong"
                         /\ snoozedUntil' =
                              now + (IF severity = "standard" THEN 15 ELSE 30) * 60
                 /\ \A f \in FlowIds :
                      flows'[f] # flows[f]
                        => /\ flows'[f].phase = "picker"
                           /\ flows'[f].suggested \in
                                CASE severity = "strong" -> {300, 180}
                                  [] severity = "standard" -> {180, 60}
                                  [] severity = "light" -> {60}]_vars

\* the tick at exactly 120 minutes has shown a strong reminder while the
\* standard one of the tick before is still open
C26_StrongAfterStandard ==
  /\ probe.fn = "checkAndNotify"
  /\ probe.shown
  /\ probe.consecutiveWorkMinutes + 1 = 120
  /\ probe.severity = "strong"
  /\ reminderPrompts = <<"standard", "strong">>

(***************************************************************************)
(* What answering a reminder changes                                       *)
(***************************************************************************)
NextResponse ==
  \/ Tick
  \/ \E i \in 1..MaxTicks, r \in AllReminderResponses : RespondReminder(i, r)
  \/ \E f \in FlowIds, e \in ExerciseIds : PickExercise(f, e)
  \/ \E f \in FlowIds : DismissPicker(f)
  \/ \E f \in FlowIds : DeclineStart(f)
  \/ PauseRemindersCommand
  \/ SnoozeCommand

SpecResponse == InitSeverity /\ [][NextResponse]_vars

\* C27: answering a reminder with a snooze sets snoozedUntil to now plus 15
\* or 30 minutes and leaves consecutiveWorkMinutes, todayBreakCount and the
\* paused flag alone; answering with an exercise opens the picker and
\* changes none of these, and when that picker's call chain has returned
\* consecutiveWorkMinutes is 0, todayBreakCount is one higher, and the
\* paused flag and snoozedUntil are as they were.
C27_ResponseEffects ==
  /\ [][Len(reminderPrompts') < Len(reminderPrompts)
         => /\ <<consecutiveWorkMinutes', todayBreakCount', paused'>>
                 = <<consecutiveWorkMinutes, todayBreakCount, paused>>
            /\ \/ /\ snoozedUntil' \in {now + 15 * 60, now + 30 * 60}
                  /\ flows' = flows
               \/ /\ snoozedUntil' = snoozedUntil
                  /\ \E f \in FlowIds :
                       /\ flows[f].phase = "idle"
                       /\ flows'[f].phase = "picker"
                       /\ flows'[f].origin = "reminder"
                       /\ \A g \in FlowIds \ {f} : flows'[g] = flows[g]
               \/ UNCHANGED <<snoozedUntil, flows>>]_vars
  /\ [][\A f \in FlowIds :
          (flows[f].origin = "reminder" /\ flows'[f].phase = "idle")
            => /\ consecutiveWorkMinutes' = 0
               /\ todayBreakCount' = todayBreakCount + 1
               /\ paused' = paused
               /\ snoozedUntil' = snoozedUntil]_vars

\* one reminder has been answered with its snooze of 15 minutes and another
\* with an exercise, whose picker was dismissed while reminders were paused
C27_SnoozedAndCounted ==
  /\ todayBreakCount = 1
  /\ consecutiveWorkMinutes = 0
  /\ snoozedUntil = now + 15 * 60
  /\ paused
  /\ reminderPrompts = <<>>
  /\ \A f \in FlowIds : flows[f].phase = "idle"

(***************************************************************************)
(* The leveling engine over days and restarts: handleExerciseCompletion in *)
(* its two awaited halves, and activation on what the store holds          *)
(***************************************************************************)
\* loadOrGenerateDailyQuest: the stored quest when it is of today, else a
\* new one
loadOrGenerateDailyQuest(stored, nowT) ==
  IF stored # <<>> /\ isToday(stored[1].date, nowT)
  THEN stored[1]
  ELSE generateDailyQuest(nowT)

\* recordActivity as handleExerciseCompletion calls it: the tracker saves the
\* activity, then its own stats under 'userStats'
recordActivity(st, e, startTime, endTime) ==
  LET full == fullActivity(completionActivity(e, startTime, endTime), st.nextId, endTime)
      log == saveActivity(st.activities, full)
      tracked == updateHealthScore(updateStats(st.currentStats, full, log, endTime),
                                   log, endTime)
  IN [st EXCEPT !.activities = log, !.nextId = @ + 1, !.currentStats = tracked,
                !.storedStats = <<tracked>>]

\* the engine's half of handleExerciseCompletion: awardExerciseCompletion
\* with its saves
awardAndSave(st, e, nowT, enabled) ==
  LET award == awardExerciseCompletion(st.userStats, st.unlockedAchievements,
                                       st.dailyQuest, e, nowT, enabled)
  IN [st EXCEPT !.userStats = award.stats, !.unlockedAchievements = award.unlocked,
                !.dailyQuest = award.quest, !.storedStats = <<award.stats>>,
                !.storedUnlocked = award.unlocked, !.storedQuest = <<award.quest>>]

\* exercises completed earlier on the day the engine is followed from
EngineSeed ==
  <<"eye_exercise", "walking_break", "eye_exercise", "eye_exercise",
    "wrist_exercise", "wrist_exercise", "wrist_exercise">>

EngineSeedLengths == {0, 7}

\* seconds after midnight at which the engine is followed from
EngineStarts == {9 * 3600, 10 * 3600 + 1800}

\* the first k sessions of EngineSeed, 400 seconds apart, the last one
\* started 400 seconds before t
EngineSessions(k, t) ==
  [i \in 1..k |->
     LET start == t - (k - i + 1) * 400
     IN [e |-> EngineSeed[i], startTime |-> start,
         endTime |-> start + EXERCISES[EngineSeed[i]].duration]]

InitEngine ==
  \E k \in EngineSeedLengths, start \in EngineStarts :
    LET t == (MaxDay - 1) * DaySeconds + start
        first == t - (k + 1) * 400
    IN Loaded(t, Replay(FreshRecords(first), EngineSessions(k, t)))

\* executeExercise for exercise e has run its steps out and
\* handleExerciseCompletion has come back from recordActivity
RecordActivityReturns(e) ==
  /\ probe.fn # "recordActivity"
  /\ sessionsStarted < MaxAwards
  /\ DayOf(now + EXERCISES[e].duration) <= MaxDay
  /\ sessionsStarted' = sessionsStarted + 1
  /\ now' = now + EXERCISES[e].duration
  /\ LET st == recordActivity(recordsNow, e, now, now + EXERCISES[e].duration)
     IN /\ activities' = st.activities
        /\ nextId' = st.nextId
        /\ currentStats' = st.currentStats
        /\ storedStats' = st.storedStats
  /\ probe' = [fn |-> "recordActivity", e |-> e]
  /\ UNCHANGED <<storedUnlocked, storedQuest, gameVars, reminderVars, configVars,
                 flows>>

\* handleExerciseCompletion goes on: awardExerciseCompletion and its saves
AwardReturns ==
  /\ probe.fn = "recordActivity"
  /\ LET st == awardAndSave(recordsNow, probe.e, now, gamificationEnabled)
         award == awardExerciseCompletion(userStats, unlockedAchievements,
                                          dailyQuest, probe.e, now,
                                          gamificationEnabled)
     IN /\ userStats' = st.userStats
        /\ unlockedAchievements' = st.unlockedAchievements
        /\ dailyQuest' = st.dailyQuest
        /\ storedStats' = st.storedStats
        /\ storedUnlocked' = st.storedUnlocked
        /\ storedQuest' = st.storedQuest
        /\ probe' = [fn |-> "awardExerciseCompletion", e |-> probe.e, at |-> now,
                     xpEarned |-> award.xpEarned,
                     leveledUp |-> award.leveledUp,
                     newLevel |-> award.newLevel,
                     before |-> [stats |-> userStats,
                                 unlocked |-> unlockedAchievements,
                                 quest |-> dailyQuest],
                     after |-> [stats |-> st.userStats,
                                unlocked |-> st.unlockedAchievements,
                                quest |-> st.dailyQuest]]
  /\ UNCHANGED <<now, activities, trackerVars, reminderVars, configVars, flowVars>>

\* activate: the tracker, the engine and the reminder service are constructed
\* on what the store holds; what the closed window had open is gone
Activate ==
  LET quest == loadOrGenerateDailyQuest(storedQuest, now')
      rs == loadState(storedReminder)
  IN /\ currentStats' = loadStats(storedStats)
     /\ userStats' = loadUserStats(storedStats)
     /\ unlockedAchievements' = storedUnlocked
     /\ dailyQuest' = quest
     /\ storedQuest' = <<quest>>
     /\ paused' = rs.paused
     /\ snoozedUntil' = rs.snoozedUntil
     /\ lastCommitTime' = rs.lastCommitTime
     /\ consecutiveWorkMinutes' = rs.consecutiveWorkMinutes
     /\ todayBreakCount' = rs.todayBreakCount
     /\ codeInputFrequency' = 0
     /\ recentInputs' = <<>>
     /\ reminderPrompts' = <<>>
     /\ flows' = [f \in FlowIds |-> IdleFlow]
     /\ authSession' = FALSE
     /\ git' = GitActivated(git.head)
     /\ probe' = NoProbe
     /\ UNCHANGED <<activities, storedStats, storedUnlocked, storedReminder,
                    nextId, sessionsStarted, ticks, gamificationEnabled,
                    frequency, dndEnabled, debugging, firebaseToken>>

\* the window is closed and opened again at once
Restart ==
  /\ now' = now
  /\ Activate

NextEngine ==
  \/ \E e \in ExerciseIds : RecordActivityReturns(e)
  \/ AwardReturns
  \/ Restart
  \/ probe.fn # "recordActivity" /\ IdlePass

SpecEngine == InitEngine /\ [][NextEngine]_vars

\* C11: the XP of the leveling engine and the xp of the persisted 'userStats'
\* record never get lower.
C11_XPNeverDecreases ==
  [][/\ userStats'.xp >= userStats.xp
     /\ loadStats(storedStats').xp >= loadStats(storedStats).xp]_vars

\* C12: when awardExerciseCompletion has returned, the level is the
\* threshold lookup of the XP.
C12_LevelIsLookupOfXP ==
  probe.fn = "awardExerciseCompletion"
    => probe.after.stats.level = findCurrentLevel(probe.after.stats.xp)

\* C16: an exercise completion updates a quest of the current calendar day.
C16_QuestIsOfToday ==
  probe.fn = "awardExerciseCompletion"
    => isToday(probe.after.quest.date, probe.at)

\* the XP rewards of the achievements of ids
RECURSIVE RewardSum(_, _)
RewardSum(i, ids) ==
  IF i > Len(ACHIEVEMENTS) THEN 0
  ELSE (IF ACHIEVEMENTS[i].id \in ids THEN ACHIEVEMENTS[i].xp ELSE 0)
       + RewardSum(i + 1, ids)

\* the XP an awardExerciseCompletion call added for its quest: task rewards
\* and bonus
QuestGain(p) ==
  (p.after.stats.xp - p.before.stats.xp) - p.xpEarned
    - RewardSum(1, p.after.unlocked \ p.before.unlocked)

\* the XP an awardExerciseCompletion call added for achievements
AchievementGain(p) ==
  (p.after.stats.xp - p.before.stats.xp) - p.xpEarned
    - QuestXP(p.before.quest.tasks, p.after.quest.tasks, 1)
    - (IF p.after.quest.completed /\ ~p.before.quest.completed THEN 50 ELSE 0)

\* C14: the set of unlocked achievements only grows; a call adds the reward
\* of exactly the achievements it newly unlocks; and a second achievement
\* check on unchanged stats unlocks nothing and adds no XP.
C14_AchievementsUnlockOnce ==
  /\ [][unlockedAchievements \subseteq unlockedAchievements']_vars
  /\ [](probe.fn = "awardExerciseCompletion"
          => /\ probe.before.unlocked \subseteq probe.after.unlocked
             /\ AchievementGain(probe)
                  = RewardSum(1, probe.after.unlocked \ probe.before.unlocked))
  /\ [](LET first == checkAchievements(userStats, unlockedAchievements, now)
            second == checkAchievements(first.stats, first.unlocked, now)
        IN second = first)

\* a call has checked the achievements while one that was unlocked already
\* still met its requirement
C14_CheckedAgain ==
  /\ probe.fn = "awardExerciseCompletion"
  /\ \E i \in 1..Len(ACHIEVEMENTS) :
       /\ ACHIEVEMENTS[i].id \in probe.before.unlocked
       /\ checkAchievementRequirement(ACHIEVEMENTS[i], probe.before.stats, probe.at)

\* C17: for one daily quest the bonus of 50 XP is added only by the
\* completion that completes the quest, each task's reward only by the
\* completion in which its progress first reaches its target, and a completed
\* task is never changed again.
C17_QuestRewardsOnce ==
  probe.fn = "awardExerciseCompletion"
    => LET b == probe.before.quest
           a == probe.after.quest
           reached(i) == ~b.tasks[i].completed /\ a.tasks[i].current >= a.tasks[i].target
           bonus == QuestGain(probe) - QuestXP(b.tasks, a.tasks, 1)
       IN /\ a.date = b.date
          /\ \A i \in 1..Len(b.tasks) :
               /\ b.tasks[i].completed => a.tasks[i] = b.tasks[i]
               /\ a.tasks[i].completed <=> (b.tasks[i].completed \/ reached(i))
               /\ a.tasks[i].current <= a.tasks[i].target
          /\ bonus \in {0, 50}
          /\ bonus = 50 <=> (~b.completed /\ a.completed)
          /\ b.completed => a.completed
          /\ a.completed <=> \A i \in 1..Len(a.tasks) : a.tasks[i].completed

\* an exercise has been completed on a quest that was complete already
C17_CompletionAfterQuestDone ==
  /\ probe.fn = "awardExerciseCompletion"
  /\ probe.before.quest.completed
  /\ probe.before.stats.xp < probe.after.stats.xp

\* C32: the level after an awardExerciseCompletion call, and the leveledUp
\* and newLevel it returns, are those of one level-up check made on the XP
\* with the exercise's XP added; the XP of the achievements unlocked in the
\* call and of the daily quest have no part in them.
C32_LevelCheckedOnceBeforeAchievements ==
  probe.fn = "awardExerciseCompletion"
    => LET looked == findCurrentLevel(probe.before.stats.xp + probe.xpEarned)
           up == looked > probe.before.stats.level
       IN /\ probe.leveledUp = up
          /\ probe.newLevel = (IF up THEN looked ELSE 0)
          /\ probe.after.stats.level = (IF up THEN looked ELSE probe.before.stats.level)

\* a call has unlocked an achievement whose XP carried the total past a
\* level threshold, and has returned without a level-up
C32_AchievementXPPastThreshold ==
  /\ probe.fn = "awardExerciseCompletion"
  /\ probe.after.unlocked # probe.before.unlocked
  /\ ~probe.leveledUp
  /\ probe.after.stats.level = probe.before.stats.level
  /\ findCurrentLevel(probe.before.stats.xp + probe.xpEarned
                        + AchievementGain(probe)) > probe.before.stats.level

\* C33: the streak and the totalExercises that an awardExerciseCompletion
\* call reads are those the tracker holds after recording the same exercise.
C33_AwardReadsLiveStats ==
  probe.fn = "awardExerciseCompletion"
    => /\ probe.before.stats.streak = currentStats.streak
       /\ probe.before.stats.totalExercises = currentStats.totalExercises

(***************************************************************************)
(* A fresh user completing one exercise after the other                    *)
(***************************************************************************)
\* executeExercise for an eye exercise, begun now, with every step running
\* its countdown out, while fewer than MaxBreaks exercises are on record
CompleteEyeExercise ==
  /\ nextId <= MaxBreaks
  /\ now' = now + EXERCISES["eye_exercise"].duration
  /\ Completes("eye_exercise", now, now')
  /\ UNCHANGED <<reminderVars, configVars, flowVars, probe>>

NextBreaks ==
  \/ CompleteEyeExercise
  \/ Restart

SpecBreaks == Init /\ [][NextBreaks]_vars

\* C34: once a fresh user has completed as many exercises as the count
\* achievement 'breaks_100' requires, that achievement is unlocked.
C34_HundredBreaksUnlock ==
  LET a == CHOOSE x \in {ACHIEVEMENTS[i] : i \in 1..Len(ACHIEVEMENTS)} :
             x.id = "breaks_100"
  IN nextId - 1 >= a.n => a.id \in unlockedAchievements

(***************************************************************************)
(* findCurrentLevel on every XP value                                      *)
(***************************************************************************)
\* the engine activated on a persisted record that carries xp XP
InitLevel ==
  \E xp \in 0..MaxXP :
    LET t == 9 * 3600
        stats == [DefaultStats EXCEPT !.xp = xp, !.level = findCurrentLevel(xp)]
    IN Loaded(t, [FreshRecords(t) EXCEPT !.currentStats = stats,
                                         !.userStats = stats,
                                         !.storedStats = <<stats>>])

\* findCurrentLevel, called on the engine's XP and on one XP more
ApplyFindCurrentLevel ==
  /\ probe = NoProbe
  /\ probe' = [fn |-> "findCurrentLevel", xp |-> userStats.xp,
               level |-> findCurrentLevel(userStats.xp),
               next |-> findCurrentLevel(userStats.xp + 1)]
  /\ UNCHANGED <<now, storeVars, trackerVars, gameVars, reminderVars, configVars,
                 flowVars>>

NextLevel == ApplyFindCurrentLevel

SpecLevel == InitLevel /\ [][NextLevel]_vars

\* C13: findCurrentLevel returns the highest level of the table whose
\* xpRequired is at most the XP, the threshold included (0 and 99 give
\* level 1, 100 gives level 2), and does not decrease as XP grows.
C13_LevelLookup ==
  probe.fn = "findCurrentLevel"
    => /\ \E i \in 1..Len(LEVELS) :
            /\ LEVELS[i].level = probe.level
            /\ LEVELS[i].xpRequired <= probe.xp
       /\ \A j \in 1..Len(LEVELS) :
            LEVELS[j].xpRequired <= probe.xp => LEVELS[j].level <= probe.level
       /\ probe.xp \in {0, 99} => probe.level = 1
       /\ probe.xp = 100 => probe.level = 2
       /\ probe.level <= probe.next

\* the lookup has been made on the XP of the highest threshold
C13_AtLastThreshold ==
  /\ probe.fn = "findCurrentLevel"
  /\ probe.xp = LEVELS[Len(LEVELS)].xpRequired
  /\ probe.level = LEVELS[Len(LEVELS)].level

(***************************************************************************)
(* The reminder service over a day: counted breaks, the midnight timer and *)
(* the window closed over midnight; and what follows a commit              *)
(***************************************************************************)
\* codefit.takeBreak: triggerBreakNow up to its picker
TakeBreakCommand ==
  /\ OpenPicker("takeBreak", 0)
  /\ UNCHANGED <<now, storeVars, trackerVars, gameVars, reminderVars, configVars,
                 sessionsStarted, probe>>

\* notifyCommit: GitIntegration has seen a new commit
NotifyCommit ==
  /\ probe.fn # "notifyCommit"
  /\ ticks < MaxTicks
  /\ lastCommitTime' = now
  /\ storedReminder' = << [reminderState EXCEPT !.lastCommitTime = now] >>
  /\ probe' = [fn |-> "notifyCommit", at |-> now]
  /\ UNCHANGED <<now, paused, snoozedUntil, consecutiveWorkMinutes, codeInputFrequency,
                 todayBreakCount, recentInputs, reminderPrompts, ticks, storeVars,
                 trackerVars, gameVars, configVars, flowVars>>

\* the timeout of notifyCommit fires 5 seconds after the commit:
\* showPostCommitReminder up to the point where it waits for the answer
PostCommitTimerFires ==
  /\ probe.fn = "notifyCommit"
  /\ ticks' = ticks + 1
  /\ now' = probe.at + 5
  /\ reminderPrompts' = Append(reminderPrompts, "postCommit")
  /\ probe' = [fn |-> "showPostCommitReminder", at |-> now']
  /\ UNCHANGED <<paused, snoozedUntil, lastCommitTime, consecutiveWorkMinutes,
                 codeInputFrequency, todayBreakCount, recentInputs, storedReminder,
                 storeVars, trackerVars, gameVars, configVars, flowVars>>

PostCommitResponses == {"2-min Break", "Quick Stretch", "Later", "dismissed"}

\* the i-th open prompt, a post-commit prompt, is answered: the rest of
\* showPostCommitReminder up to the picker if one is opened
RespondPostCommit(i, response) ==
  /\ i \in 1..Len(reminderPrompts)
  /\ reminderPrompts[i] = "postCommit"
  /\ response \in PostCommitResponses
  /\ reminderPrompts' = RemoveAt(reminderPrompts, i)
  /\ IF response \in {"Later", "dismissed"}
     THEN UNCHANGED flows
     ELSE OpenPicker("postCommit", IF response = "2-min Break" THEN 120 ELSE 60)
  /\ UNCHANGED <<now, paused, snoozedUntil, lastCommitTime, consecutiveWorkMinutes,
                 codeInputFrequency, todayBreakCount, recentInputs, storedReminder,
                 ticks, storeVars, trackerVars, gameVars, configVars,
                 sessionsStarted, probe>>

\* local midnight comes with the window open: the timeout of
\* scheduleMidnightReset fires
MidnightPasses ==
  /\ probe.fn # "notifyCommit"
  /\ DayOf(now) + 1 <= MaxDay
  /\ now' = startOfDay(now) + DaySeconds
  /\ todayBreakCount' = 0
  /\ storedReminder' = << [reminderState EXCEPT !.todayBreakCount = 0] >>
  /\ UNCHANGED <<paused, snoozedUntil, lastCommitTime, consecutiveWorkMinutes,
                 codeInputFrequency, recentInputs, reminderPrompts, ticks, storeVars,
                 trackerVars, gameVars, configVars, flowVars, probe>>

\* the window is closed, and opened again at 08:00 of the next day
ClosedOverMidnight ==
  /\ DayOf(now) + 1 <= MaxDay
  /\ now' = startOfDay(now) + DaySeconds + 8 * 3600
  /\ Activate

\* time of day at which the day of the reminder service is followed from
DayStart == 23 * 3600 + 3000

InitDay ==
  LET t == (MaxDay - 1) * DaySeconds + DayStart
  IN Loaded(t, FreshRecords(t))

NextDay ==
  \/ TakeBreakCommand
  \/ \E f \in FlowIds, e \in ExerciseIds : PickExercise(f, e)
  \/ \E f \in FlowIds : DismissPicker(f)
  \/ \E f \in FlowIds : DeclineStart(f)
  \/ MidnightPasses
  \/ ClosedOverMidnight
  \/ Restart

SpecDay == InitDay /\ [][NextDay]_vars

\* times of day at which commits are followed from
CommitStarts == {10 * 3600, 12 * 3600 + 1800}

InitCommit ==
  \E start \in CommitStarts :
    LET t == (MaxDay - 1) * DaySeconds + start
    IN Loaded(t, FreshRecords(t))

NextCommit ==
  \/ NotifyCommit
  \/ PostCommitTimerFires
  \/ \E i \in 1..MaxTicks, r \in PostCommitResponses : RespondPostCommit(i, r)
  \/ \E f \in FlowIds : DismissPicker(f)
  \/ PauseRemindersCommand
  \/ SnoozeCommand
  \/ DebugSessionChanges
  \/ \E charCount \in InputSizes : ChangeTextDocument(charCount)

SpecCommit == InitCommit /\ [][NextCommit]_vars

\* C18: todayBreakCount counts the breaks since the most recent local
\* midnight: a step into another calendar day leaves it at 0, and within a
\* day it stays or goes up by one.
C18_BreakCountIsPerDay ==
  [][IF DayOf(now') # DayOf(now)
     THEN todayBreakCount' = 0
     ELSE todayBreakCount' \in {todayBreakCount, todayBreakCount + 1}]_vars

\* C20: when the grace period after a commit ends while reminders are paused
\* or snoozed, the time is inside an enabled Do-Not-Disturb window, a debug
\* session is active or codeInputFrequency is above 50, no post-commit prompt
\* is shown.
C20_PostCommitSuppressed ==
  [][(/\ probe.fn = "notifyCommit"
      /\ probe'.fn = "showPostCommitReminder"
      /\ \/ paused
         \/ snoozedUntil # NoTime /\ now' < snoozedUntil
         \/ dndEnabled /\ InsideWindow(now')
         \/ debugging
         \/ codeInputFrequency > 50)
       => reminderPrompts' = reminderPrompts]_vars

(***************************************************************************)
(* Snooze and pause over the ticks that follow them                        *)
(***************************************************************************)
\* the interval of start() fires minute after minute while reminders are
\* snoozed: each checkAndNotify call returns at isPaused(); the clock is
\* left at the last tick before the snooze ends
SnoozedTicks ==
  LET last == snoozedUntil - 60
  IN /\ ticks < MaxTicks
     /\ snoozedUntil # NoTime
     /\ now < last
     /\ (last - now) % 60 = 0
     /\ isPaused(paused, snoozedUntil, last)
     /\ ticks' = ticks + 1
     /\ now' = last
     /\ probe' = tickRecord(last, FALSE)
     /\ UNCHANGED <<paused, snoozedUntil, lastCommitTime, consecutiveWorkMinutes,
                    codeInputFrequency, todayBreakCount, recentInputs,
                    reminderPrompts, storedReminder, storeVars, trackerVars,
                    gameVars, configVars, flowVars>>

NextSnooze ==
  \/ Tick
  \/ SnoozedTicks
  \/ \E i \in 1..MaxTicks, r \in AllReminderResponses : RespondReminder(i, r)
  \/ \E f \in FlowIds : DismissPicker(f)
  \/ PauseRemindersCommand
  \/ SnoozeCommand
  \/ Restart

SpecSnooze == InitSeverity /\ [][NextSnooze]_vars

\* C28: a snooze sets its end to 15 or 30 minutes from now and a pause sets
\* the paused flag, and neither withdraws a prompt that is open; only
\* resume() clears them; a tick while paused or before the end of the snooze
\* shows nothing; and a tick at or after the end of the snooze, reminders
\* not paused, counts the minute and shows the reminder that is due.
C28_SnoozeAndPause ==
  /\ [][(snoozedUntil' # snoozedUntil \/ paused' # paused)
         => /\ \/ reminderPrompts' = reminderPrompts
               \/ /\ snoozedUntil' \in {now + 15 * 60, now + 30 * 60}
                  /\ \E i \in 1..Len(reminderPrompts) :
                       reminderPrompts' = RemoveAt(reminderPrompts, i)
            /\ snoozedUntil' \in {snoozedUntil, NoTime, now + 15 * 60, now + 30 * 60}
            /\ ((snoozedUntil # NoTime /\ snoozedUntil' = NoTime) \/ (paused /\ ~paused'))
                 => (~paused' /\ snoozedUntil' = NoTime)]_vars
  /\ [][(/\ ticks' = ticks + 1
         /\ paused \/ (snoozedUntil # NoTime /\ now' < snoozedUntil))
         => /\ reminderPrompts' = reminderPrompts
            /\ consecutiveWorkMinutes' = consecutiveWorkMinutes]_vars
  /\ [][(/\ ticks' = ticks + 1
         /\ ~paused
         /\ snoozedUntil # NoTime
         /\ now' >= snoozedUntil)
         => /\ consecutiveWorkMinutes' = consecutiveWorkMinutes + 1
            /\ consecutiveWorkMinutes' >= 90
                 => reminderPrompts' = Append(reminderPrompts, probe'.severity)]_vars

\* the tick at the very end of a snooze has shown a reminder
C28_FiredAtSnoozeEnd ==
  /\ probe.fn = "checkAndNotify"
  /\ probe.snoozedUntil # NoTime
  /\ probe.at = probe.snoozedUntil
  /\ ~probe.paused
  /\ probe.shown
  /\ reminderPrompts # <<>>

(***************************************************************************)
(* The minute tick while an exercise session runs                          *)
(***************************************************************************)
\* consecutiveWorkMinutes found in the stored reminder state
SessionWorkMinutes == {29, 89}

InitSessionTick ==
  \E minutes \in SessionWorkMinutes :
    LET t == 10 * 3600
    IN LoadedWith(t, FreshRecords(t),
                  << [paused |-> FALSE,
                      snoozedUntil |-> NoTime,
                      lastCommitTime |-> NoTime,
                      consecutiveWorkMinutes |-> minutes,
                      todayBreakCount |-> 0] >>,
                  DefaultConfig)

NextSessionTick ==
  \/ Tick
  \/ \E i \in 1..MaxTicks, r \in AllReminderResponses : RespondReminder(i, r)
  \/ StartExerciseCommand
  \/ \E f \in FlowIds, e \in ExerciseIds : PickExercise(f, e)
  \/ \E f \in FlowIds : DismissPicker(f)
  \/ \E f \in FlowIds : BeginExercise(f)
  \/ \E f \in FlowIds, r \in StepResponses : RespondStep(f, r)

SpecSessionTick == InitSessionTick /\ [][NextSessionTick]_vars

\* C29: while an exercise session is running its steps, no tick shows a new
\* reminder prompt.
C29_NoPromptDuringSession ==
  [][(/\ ticks' = ticks + 1
      /\ \E f \in FlowIds : flows[f].phase = "running")
       => reminderPrompts' = reminderPrompts]_vars

(***************************************************************************)
(* Exercise offers accepted on a reminder or after a commit                *)
(***************************************************************************)
\* the reminder service started one minute short of the smart-mode mark of 90
InitAccepted ==
  LET t == 10 * 3600
  IN LoadedWith(t, FreshRecords(t),
                << [paused |-> FALSE,
                    snoozedUntil |-> NoTime,
                    lastCommitTime |-> NoTime,
                    consecutiveWorkMinutes |-> 89,
                    todayBreakCount |-> 0] >>,
                DefaultConfig)

\* ticks, commits and every answer but the snoozes, which offer no exercise;
\* the exercise picked is always the first of the catalogue
NextAccepted ==
  \/ Tick
  \/ NotifyCommit
  \/ PostCommitTimerFires
  \/ \E i \in 1..MaxTicks,
        r \in AllReminderResponses \ {"Snooze 15min", "Snooze 30min"} :
       RespondReminder(i, r)
  \/ \E i \in 1..MaxTicks, r \in PostCommitResponses : RespondPostCommit(i, r)
  \/ \E f \in FlowIds : PickExercise(f, "eye_exercise")
  \/ \E f \in FlowIds : DismissPicker(f)
  \/ \E f \in FlowIds : BeginExercise(f)
  \/ \E f \in FlowIds : DeclineStart(f)
  \/ \E f \in FlowIds, r \in StepResponses : RespondStep(f, r)
  \/ \E f \in FlowIds, r \in CelebrationResponses : RespondCelebration(f, r)

SpecAccepted == InitAccepted /\ [][NextAccepted]_vars

\* C37: when the picker opened by an exercise answer to a reminder or to a
\* post-commit prompt has returned, consecutiveWorkMinutes is 0 and
\* todayBreakCount is one higher, whether the picker was dismissed, the
\* start prompt declined, the exercise stopped or the exercise completed;
\* nothing else raises todayBreakCount here.
C37_AcceptedOfferCountsAsBreak ==
  [][LET returned == {f \in FlowIds : /\ flows[f].phase # "idle"
                                      /\ flows'[f].phase = "idle"}
     IN /\ \A f \in returned :
             flows[f].origin \in {"reminder", "postCommit"}
               => /\ consecutiveWorkMinutes' = 0
                  /\ todayBreakCount' = todayBreakCount + 1
        /\ returned = {} => todayBreakCount' = todayBreakCount]_vars

\* two offers have been accepted and both counted as breaks, an exercise
\* was picked for one of them only, and no activity has been recorded
C37_BreaksWithoutActivity ==
  /\ todayBreakCount = 2
  /\ consecutiveWorkMinutes = 0
  /\ activities = <<>>
  /\ sessionsStarted = 1
  /\ \A f \in FlowIds : flows[f].phase = "idle"

(***************************************************************************)
(* FirebaseService and codefit.syncData: the bulk sync of the activity log *)
(***************************************************************************)
\* number of codefit.syncData runs in one behaviour
MaxSyncs == 2
\* largest activity log a sync runs over
MaxSyncItems == 4

\* authenticate: healthy is the outcome of verifyToken, granted whether the
\* Google session is given
authenticate(session, token, healthy, granted) ==
  IF token /\ healthy
  THEN [authSession |-> TRUE, firebaseToken |-> token, success |-> TRUE]
  ELSE IF granted
  THEN [authSession |-> TRUE, firebaseToken |-> TRUE, success |-> TRUE]
  ELSE [authSession |-> session \/ token, firebaseToken |-> token,
        success |-> FALSE]

\* callFunction as logActivity uses it: TRUE when it returns, FALSE when it
\* throws (no session, or a response that is not ok)
callFunction(session, responseOk) == session /\ responseOk

\* HealthTracker.getAllActivities: the local activity records
getAllActivities(log) == log

\* the callback of withProgress before its loop
syncStart(log, run) ==
  LET list == getAllActivities(log)
  IN [fn |-> "syncData", run |-> run, activities |-> list, i |-> 0,
      synced |-> 0, calls |-> <<>>, done |-> (Len(list) = 0)]

\* one pass of the loop with the call rethrown to the outer handler
syncActivityGiveUp(sync, ok) ==
  LET activity == sync.activities[sync.i + 1]
      calls == Append(sync.calls, [id |-> activity.id, ok |-> ok])
  IN IF ok
     THEN [sync EXCEPT !.i = @ + 1, !.synced = @ + 1, !.calls = calls,
                       !.done = (sync.i + 1 = Len(sync.activities))]
     ELSE [sync EXCEPT !.calls = calls, !.done = TRUE]

\* one pass of the loop of codefit.syncData; ok tells whether logActivity
\* returned
syncActivity(sync, ok) ==
  LET activity == sync.activities[sync.i + 1]
  IN [sync EXCEPT !.i = @ + 1,
                  !.synced = IF ok THEN @ + 1 ELSE @,
                  !.calls = Append(@, [id |-> activity.id, ok |-> ok]),
                  !.done = (sync.i + 1 = Len(sync.activities))]

syncRuns == IF probe.fn = "syncData" THEN probe.run ELSE 0

\* codefit.signIn
SignInCommand(healthy, granted) ==
  LET a == authenticate(authSession, firebaseToken, healthy, granted)
  IN /\ authSession' = a.authSession
     /\ firebaseToken' = a.firebaseToken
     /\ <<authSession', firebaseToken'>> # <<authSession, firebaseToken>>
     /\ UNCHANGED <<now, storeVars, trackerVars, gameVars, reminderVars, flowVars,
                    gamificationEnabled, frequency, dndEnabled, debugging, git,
                    probe>>

\* codefit.signOut
SignOutCommand ==
  /\ authSession \/ firebaseToken
  /\ authSession' = FALSE
  /\ firebaseToken' = FALSE
  /\ UNCHANGED <<now, storeVars, trackerVars, gameVars, reminderVars, flowVars,
                 gamificationEnabled, frequency, dndEnabled, debugging, git,
                 probe>>

\* codefit.syncData up to its first remote call
SyncDataCommand ==
  /\ probe.fn = "syncData" => probe.done
  /\ authSession
  /\ syncRuns < MaxSyncs
  /\ probe' = syncStart(activities, syncRuns + 1)
  /\ UNCHANGED <<now, storeVars, trackerVars, gameVars, reminderVars, flowVars,
                 configVars>>

\* the logActivity call of the loop returns or throws, and the loop goes on
\* to its next call or to the summary
LogActivityReturns(responseOk) ==
  /\ probe.fn = "syncData"
  /\ ~probe.done
  /\ probe' = syncActivity(probe, callFunction(authSession, responseOk))
  /\ UNCHANGED <<now, storeVars, trackerVars, gameVars, reminderVars, flowVars,
                 configVars>>

SyncSeedLengths == {0, 1, 3}

InitSync ==
  \E n \in SyncSeedLengths :
    LET first == (MaxDay - 1) * DaySeconds + 8 * 3600
        seed == Seed(n, 2, first, 45)
        t == IF n = 0 THEN first + 600 ELSE seed[n].endTime + 600
    IN Loaded(t, Replay(FreshRecords(first), seed))

NextSync ==
  \/ \E healthy \in BOOLEAN, granted \in BOOLEAN : SignInCommand(healthy, granted)
  \/ SignOutCommand
  \/ SyncDataCommand
  \/ \E responseOk \in BOOLEAN : LogActivityReturns(responseOk)
  \/ \E e \in ExerciseIds : Len(activities) < MaxSyncItems /\ CompleteExercise(e)

SpecSync == InitSync /\ [][NextSync]_vars

RECURSIVE CountOk(_)
CountOk(calls) ==
  IF calls = <<>> THEN 0
  ELSE (IF calls[1].ok THEN 1 ELSE 0) + CountOk(Tail(calls))

\* C21: a sync hands every activity of the log it started on to the remote
\* service once, in order, whatever the earlier calls did; its count is the
\* number of calls that returned; it ends only after the last activity; and
\* no step of a sync changes the activity log or a UserStats record.
C21_SyncAttemptsEachOnce ==
  /\ [](probe.fn = "syncData"
          => /\ Len(probe.calls) = probe.i
             /\ \A k \in 1..probe.i : probe.calls[k].id = probe.activities[k].id
             /\ probe.synced = CountOk(probe.calls)
             /\ probe.synced \in 0..Len(probe.activities)
             /\ probe.done <=> probe.i = Len(probe.activities))
  /\ [][(probe'.fn = "syncData" /\ probe' # probe)
         => /\ (probe.fn # "syncData" \/ probe.done) => probe'.activities = activities
            /\ UNCHANGED <<activities, currentStats, userStats, storedStats,
                           storedUnlocked, storedQuest>>]_vars

\* a sync has ended in which a call failed and a later one succeeded, on a
\* log that another exercise was recorded in meanwhile
C21_FailureThenSuccess ==
  /\ probe.fn = "syncData"
  /\ probe.done
  /\ \E j, k \in 1..Len(probe.calls) :
       j < k /\ ~probe.calls[j].ok /\ probe.calls[k].ok
  /\ probe.synced < Len(probe.activities)
  /\ activities # probe.activities

(***************************************************************************)
(* Signing in on a stored token, across restarts                           *)
(***************************************************************************)
NextAuth ==
  \/ \E healthy \in BOOLEAN, granted \in BOOLEAN : SignInCommand(healthy, granted)
  \/ SignOutCommand
  \/ Restart
  \/ SyncDataCommand
  \/ \E responseOk \in BOOLEAN : LogActivityReturns(responseOk)

SpecAuth == InitSync /\ [][NextAuth]_vars

\* C39: when authenticate has returned false, no session is held:
\* isAuthenticated() is false, so that codefit.syncData makes no remote call.
C39_FailedSignInHoldsNoSession ==
  [][\A healthy \in BOOLEAN, granted \in BOOLEAN :
       (/\ SignInCommand(healthy, granted)
        /\ ~authenticate(authSession, firebaseToken, healthy, granted).success)
         => ~authSession']_vars

(***************************************************************************)
(* GitIntegration: repository state changes, enable and disable            *)
(***************************************************************************)
\* onRepositoryStateChange up to its first await, called by each of k
\* registered listeners with HEAD at commit head ('codefit.git.commitReminder'
\* set): a HEAD that differs from the last one seen sends every call to
\* getCommit, any other HEAD is remembered
onRepositoryStateChange(g, head, k) ==
  IF ~g.enabled THEN g
  ELSE IF g.lastCommitHash # 0 /\ g.lastCommitHash # head
  THEN [g EXCEPT !.pending = @ \o [i \in 1..k |-> head]]
  ELSE [g EXCEPT !.lastCommitHash = head]

\* the repository fires onDidChange, after a new commit (moves) or after
\* any other change of its state
RepositoryStateChanges(moves) ==
  LET head == IF moves THEN git.head + 1 ELSE git.head
      seen == [git EXCEPT !.head = head,
                          !.due = IF moves /\ git.enabled /\ git.lastCommitHash # 0
                                  THEN @ \cup {head} ELSE @]
  IN /\ moves => git.head <= MaxCommits
     /\ Len(git.pending) + git.listeners <= MaxPending
     /\ git' = onRepositoryStateChange(seen, head, git.listeners)
     /\ git' # git
     /\ UNCHANGED <<now, storeVars, trackerVars, gameVars, reminderVars, flowVars,
                    gamificationEnabled, frequency, dndEnabled, debugging,
                    authSession, firebaseToken, probe>>

\* getCommit resolves for the i-th waiting call: handleNewCommit with
\* notifyCommit, then the HEAD the call had read is remembered
GetCommitReturns(i) ==
  /\ i \in 1..Len(git.pending)
  /\ git' = [git EXCEPT !.pending = RemoveAt(@, i),
                        !.forwarded = Append(@, git.pending[i]),
                        !.lastCommitHash = git.pending[i]]
  /\ lastCommitTime' = now
  /\ storedReminder' = << [reminderState EXCEPT !.lastCommitTime = now] >>
  /\ probe' = [fn |-> "notifyCommit", at |-> now]
  /\ UNCHANGED <<now, paused, snoozedUntil, consecutiveWorkMinutes, codeInputFrequency,
                 todayBreakCount, recentInputs, reminderPrompts, ticks, storeVars,
                 trackerVars, gameVars, flowVars, gamificationEnabled, frequency,
                 dndEnabled, debugging, authSession, firebaseToken>>

\* enable() while disabled
EnableGit ==
  /\ ~git.enabled
  /\ git.listeners < MaxListeners
  /\ git' = [git EXCEPT !.enabled = TRUE, !.listeners = @ + 1]
  /\ UNCHANGED <<now, storeVars, trackerVars, gameVars, reminderVars, flowVars,
                 gamificationEnabled, frequency, dndEnabled, debugging,
                 authSession, firebaseToken, probe>>

\* disable() while enabled
DisableGit ==
  /\ git.enabled
  /\ git' = [git EXCEPT !.enabled = FALSE]
  /\ UNCHANGED <<now, storeVars, trackerVars, gameVars, reminderVars, flowVars,
                 gamificationEnabled, frequency, dndEnabled, debugging,
                 authSession, firebaseToken, probe>>

InitGit == Loaded(10 * 3600, FreshRecords(10 * 3600))

NextGit ==
  \/ \E moves \in BOOLEAN : RepositoryStateChanges(moves)
  \/ \E i \in 1..MaxPending : GetCommitReturns(i)
  \/ EnableGit
  \/ DisableGit

SpecGit == InitGit /\ [][NextGit]_vars

\* C35: notifyCommit is called at most once for a commit, only for a commit
\* that HEAD moved to while the integration was enabled and after a first
\* HEAD had been seen, and for every such commit once no call is waiting.
C35_CommitForwardedOnce ==
  /\ \A i, j \in 1..Len(git.forwarded) :
       git.forwarded[i] = git.forwarded[j] => i = j
  /\ \A i \in 1..Len(git.forwarded) : git.forwarded[i] \in git.due
  /\ git.pending = <<>> => \A h \in git.due : \E i \in 1..Len(git.forwarded) :
                                                git.forwarded[i] = h

====
